---- MODULE Spec2Model ----
(***************************************************************************)
(* Model of the batch delivery loop of ics-import.js                       *)
(* (CalendarImporter.processJSONLFile) together with the checkpoint store  *)
(* (loadCheckpoint / saveCheckpoint / removeCheckpoint) and the remote     *)
(* calendar operations it consumes (events.list, events.import,            *)
(* events.update).  One process at a time runs the loop over the records   *)
(* of one JSONL document; the process may be terminated at any point and   *)
(* the command re-invoked.  The sidecar file and the remote calendar       *)
(* survive the process, everything else is lost with it.                   *)
(*                                                                         *)
(* Indices are zero-based as in the source: record idx is events[idx + 1]. *)
(* The file system itself is taken to be reliable (the catch branches of   *)
(* the checkpoint store only log).                                         *)
(***************************************************************************)
EXTENDS Integers, Sequences, FiniteSets

\* ---------------------------------------------------------------- bounds
MaxEvents == 2      \* longest JSONL document explored
MaxRuns   == 2      \* invocations of the process command explored
MaxFaults == 1      \* remote calls that answer with an error
MaxRetries == 3     \* largest retry ceiling handed to updateEventWithRetry
MaxAttendees == 2   \* most attendee properties on one event
MaxOps == 3         \* calls of the checkpoint store in a row
MaxVevents == 2     \* most events in the ICS file
MaxRejected == 1    \* lines typed at the prompts that are turned down
MaxPosition == 1234 \* largest position handed to saveCheckpoint

UIDs == {"e1", "e2"}

VARIABLES
    events,          \* the parsed JSONL records (fixed for a behaviour)
    checkDuplicates, \* this.checkDuplicates
    skipErrors,      \* this.skipErrors
    fs,              \* the file system: path -> file text
    remote,          \* the remote calendar: event id -> stored event
    pc,              \* position of the running process, "idle" when none
    i,               \* loop variable of processJSONLFile
    startPosition,   \* const startPosition
    successCount,    \* let successCount
    skippedCount,    \* let skippedCount
    resumedCount,    \* let resumedCount
    response,        \* response.data.id of the last answered import
    calls,           \* history: remote calls issued by the current run
    fate,            \* history: terminal step of each index in the current run
    confirmed,       \* history: indices whose upload was confirmed, any run
    runs,            \* history: number of invocations so far
    outcome,         \* history: how the last finished run ended
    faults,          \* history: remote errors so far
    runFaults,       \* history: remote errors in the current run
    prevFailed,      \* history: indices that failed in the previous run
    fsAtStart,       \* history: fs when the current run started
    remoteAtStart,   \* history: remote when the current run started
    completedRuns,   \* history: number of runs that reached the end
    emailAliases,    \* this.emailAliases
    nameToEmail,     \* this.nameToEmail
    icsEvent,        \* argument of convertICSToGoogleEvent
    googleEvent,     \* what convertICSToGoogleEvent returned
    maxRetries,      \* argument of updateEventWithRetry
    attempt,         \* attempts of updateEventWithRetry finished so far
    rpc,             \* position of updateEventWithRetry
    data,            \* data.sequence of the last answered events.get
    lastError,       \* the error of the last rejected events.update
    result,          \* what updateEventWithRetry returned
    thrown,          \* what updateEventWithRetry raised
    gets,            \* history: data.sequence of every events.get
    updates,         \* history: every events.update and its answer
    error,           \* argument of isSequenceError
    classified,      \* what isSequenceError answered
    disk,            \* the file system the checkpoint store is called on
    ops,             \* history: the calls of the checkpoint store
    vevents,         \* the VEVENT components of the ICS file
    step,            \* position of prepareEmails / generateEventsJSON
    foundEmails,     \* the emails extractAllEmailsAndNames returned
    foundNames,      \* the names extractAllEmailsAndNames returned
    cursor,          \* position of the loop the step is in
    output,          \* const events and let skippedCount of generateEventsJSON
    jsonl,           \* the lines of the .jsonl file, <<>> before it is written
    audit            \* history: prompts, table writes, tables at generation

loopVars == <<events, checkDuplicates, skipErrors, fs, remote, pc, i,
              startPosition, successCount, skippedCount, resumedCount,
              response, calls, fate, confirmed, runs, outcome, faults,
              runFaults, prevFailed, fsAtStart, remoteAtStart, completedRuns>>

convertVars == <<emailAliases, nameToEmail, icsEvent, googleEvent>>

retryVars == <<maxRetries, attempt, rpc, data, lastError, result, thrown,
               gets, updates>>

classifyVars == <<error, classified>>

storeVars == <<disk, ops>>

pipelineVars == <<vevents, step, foundEmails, foundNames, cursor, output,
                  jsonl, audit>>

vars == <<loopVars, convertVars, retryVars, classifyVars,
         storeVars,
         pipelineVars>>

\* no conversion, no update protocol and no classification in progress
ConvertOff ==
    /\ emailAliases = <<>>
    /\ nameToEmail = <<>>
    /\ icsEvent = <<>>
    /\ googleEvent = <<>>

RetryOff ==
    /\ maxRetries = 0
    /\ attempt = 0
    /\ rpc = "off"
    /\ data = <<>>
    /\ lastError = <<>>
    /\ result = "none"
    /\ thrown = <<>>
    /\ gets = <<>>
    /\ updates = <<>>

ClassifyOff ==
    /\ error = <<>>
    /\ classified = "none"

StoreOff ==
    /\ disk = <<>>
    /\ ops = <<>>

PipelineOff ==
    /\ vevents = <<>>
    /\ step = "off"
    /\ foundEmails = <<>>
    /\ foundNames = <<>>
    /\ cursor = 0
    /\ output = <<>>
    /\ jsonl = <<>>
    /\ audit = <<>>

\* ------------------------------------------------------ text conversions
Digits == <<"0", "1", "2", "3", "4", "5", "6", "7", "8", "9">>

DigitChar(d) == Digits[d + 1]

DigitValue(c) == CHOOSE d \in 0..9 : Digits[d + 1] = c

IsDigit(c) == \E d \in 0..9 : Digits[d + 1] = c

\* Number.prototype.toString for a non-negative integer: decimal digits,
\* most significant first, as a sequence of characters
RECURSIVE toString(_)
toString(n) ==
    IF n < 10 THEN <<DigitChar(n)>>
    ELSE Append(toString(n \div 10), DigitChar(n % 10))

\* parseInt yields NaN when the text does not start with a digit
NaN == -2

RECURSIVE ParseDigits(_, _)
ParseDigits(text, acc) ==
    IF text = <<>> \/ ~IsDigit(Head(text)) THEN acc
    ELSE ParseDigits(Tail(text), acc * 10 + DigitValue(Head(text)))

parseInt(text) ==
    IF text = <<>> \/ ~IsDigit(Head(text)) THEN NaN
    ELSE ParseDigits(text, 0)

\* ------------------------------------------------------ checkpoint store
IcsFilePath == "calendar.ics"

SidecarPath(icsFilePath) == <<icsFilePath, ".position">>

ExistsSync(files, path) == path \in DOMAIN files

NoFiles == [p \in {} |-> <<>>]

WriteFileSync(files, path, text) ==
    [p \in DOMAIN files \cup {path} |-> IF p = path THEN text ELSE files[p]]

UnlinkSync(files, path) ==
    [p \in DOMAIN files \ {path} |-> files[p]]

\* mutation: a missing sidecar reads as position 0
loadCheckpoint_AbsentIsZero(files, icsFilePath) ==
    IF ExistsSync(files, SidecarPath(icsFilePath))
    THEN parseInt(files[SidecarPath(icsFilePath)])
    ELSE 0

loadCheckpoint(files, icsFilePath) ==
    IF ExistsSync(files, SidecarPath(icsFilePath))
    THEN parseInt(files[SidecarPath(icsFilePath)])
    ELSE -1

\* mutation: the index after the delivered one is persisted
saveCheckpoint_OffByOne(files, icsFilePath, position) ==
    WriteFileSync(files, SidecarPath(icsFilePath), toString(position + 1))

saveCheckpoint(files, icsFilePath, position) ==
    WriteFileSync(files, SidecarPath(icsFilePath), toString(position))

\* mutation: the sidecar is left behind
removeCheckpoint_Noop(files, icsFilePath) == files

removeCheckpoint(files, icsFilePath) ==
    IF ExistsSync(files, SidecarPath(icsFilePath))
    THEN UnlinkSync(files, SidecarPath(icsFilePath))
    ELSE files

\* ------------------------------------------------------------- documents
Metadata == [hasRecurrence : BOOLEAN, isRecurrenceException : BOOLEAN]

EventData == [iCalUID : UIDs, metadata : Metadata]

RECURSIVE SeqsOfLen(_, _)
SeqsOfLen(S, n) ==
    IF n = 0 THEN {<<>>}
    ELSE {Append(s, x) : s \in SeqsOfLen(S, n - 1), x \in S}

\* identifiers are opaque: documents are taken up to renaming of the
\* identifiers, the first record carrying the first one
Documents ==
    {doc \in UNION {SeqsOfLen(EventData, n) : n \in 1..MaxEvents} :
        doc[1].iCalUID = "e1"}

NumEvents == Len(events)

EventAt(idx) == events[idx + 1]

Indices == 0..(NumEvents - 1)

\* ----------------------------------------------------------- remote side
\* the calendar stores, per event id, the external identifier, the index
\* of the record it was created from and the number of updates applied
RemoteHas(rem, uid) == \E id \in 1..Len(rem) : rem[id].iCalUID = uid

RemoteImport(rem, idx, ev) ==
    Append(rem, [iCalUID |-> ev.iCalUID, src |-> idx, updates |-> 0])

RemoteUpdate(rem, eventId) ==
    [rem EXCEPT ![eventId].updates = @ + 1]

Call(op, idx, ok, id) == [op |-> op, idx |-> idx, ok |-> ok, id |-> id]

\* ------------------------------------------------------------ loop tests
\* mutation: the checkpointed index itself is processed again
IsResumed_Strict(idx, start) == start # NaN /\ idx < start

\* if (i <= startPosition)
IsResumed(idx, start) == start # NaN /\ idx <= start

\* mutation: recurrence exceptions get the follow-up update too
NeedsUpdate_IgnoresException(ev) == ev.metadata.hasRecurrence

\* if (_metadata.hasRecurrence && !_metadata.isRecurrenceException)
NeedsUpdate(ev) ==
    ev.metadata.hasRecurrence /\ ~ev.metadata.isRecurrenceException

NoFate == [idx \in Indices |-> "none"]

\* ----------------------------------------------------------------- Init
Init ==
    /\ events \in Documents
    /\ checkDuplicates \in BOOLEAN
    /\ skipErrors \in BOOLEAN
    \* without the duplicate check the loop never reads an identifier:
    \* one assignment of identifiers stands for all of them
    /\ checkDuplicates \/ \A k \in DOMAIN events : events[k].iCalUID = "e1"
    /\ fs = NoFiles
    /\ remote = <<>>
    /\ pc = "idle"
    /\ i = 0
    /\ startPosition = -1
    /\ successCount = 0
    /\ skippedCount = 0
    /\ resumedCount = 0
    /\ response = 0
    /\ calls = <<>>
    /\ fate = [idx \in 0..(Len(events) - 1) |-> "none"]
    /\ confirmed = {}
    /\ runs = 0
    /\ outcome = "none"
    /\ faults = 0
    /\ runFaults = 0
    /\ prevFailed = {}
    /\ fsAtStart = NoFiles
    /\ remoteAtStart = <<>>
    /\ completedRuns = 0
    /\ ConvertOff
    /\ RetryOff
    /\ ClassifyOff
    /\ StoreOff
    /\ PipelineOff

config == <<events, checkDuplicates, skipErrors>>

counters == <<successCount, skippedCount, resumedCount>>

\* -------------------------------------------------------------- actions
\* mutation: the checkpoint is read as the next index to process
Start_ResumeOneLate ==
    /\ pc = "idle"
    /\ runs < MaxRuns
    /\ runs' = runs + 1
    /\ startPosition' = loadCheckpoint(fs, IcsFilePath) + 1
    /\ i' = 0
    /\ successCount' = 0
    /\ skippedCount' = 0
    /\ resumedCount' = 0
    /\ response' = 0
    /\ calls' = <<>>
    /\ prevFailed' = {idx \in Indices : fate[idx] = "failed"}
    /\ fate' = NoFate
    /\ runFaults' = 0
    /\ fsAtStart' = fs
    /\ remoteAtStart' = remote
    /\ pc' = "loop"
    /\ UNCHANGED <<config, fs, remote, confirmed, outcome, faults,
                   completedRuns>>
    /\ UNCHANGED <<convertVars, retryVars, classifyVars, storeVars,
                   pipelineVars>>

\* node ics-import.js process <file>: processJSONLFile up to the loop
Start ==
    /\ pc = "idle"
    /\ runs < MaxRuns
    /\ runs' = runs + 1
    /\ startPosition' = loadCheckpoint(fs, IcsFilePath)
    /\ i' = 0
    /\ successCount' = 0
    /\ skippedCount' = 0
    /\ resumedCount' = 0
    /\ response' = 0
    /\ calls' = <<>>
    /\ prevFailed' = {idx \in Indices : fate[idx] = "failed"}
    /\ fate' = NoFate
    /\ runFaults' = 0
    /\ fsAtStart' = fs
    /\ remoteAtStart' = remote
    /\ pc' = "loop"
    /\ UNCHANGED <<config, fs, remote, confirmed, outcome, faults,
                   completedRuns>>
    /\ UNCHANGED <<convertVars, retryVars, classifyVars, storeVars,
                   pipelineVars>>

\* mutation: an index at or below the checkpoint is passed over uncounted
Resumed_NotCounted ==
    /\ pc = "loop"
    /\ i < NumEvents
    /\ IsResumed(i, startPosition)
    /\ fate' = [fate EXCEPT ![i] = "resumed"]
    /\ i' = i + 1
    /\ UNCHANGED <<config, fs, remote, pc, startPosition, counters, response,
                   calls, confirmed, runs, outcome, faults, runFaults,
                   prevFailed, fsAtStart, remoteAtStart, completedRuns>>
    /\ UNCHANGED <<convertVars, retryVars, classifyVars, storeVars,
                   pipelineVars>>

\* loop head, i <= startPosition: resumedCount++; continue
Resumed ==
    /\ pc = "loop"
    /\ i < NumEvents
    /\ IsResumed(i, startPosition)
    /\ resumedCount' = resumedCount + 1
    /\ fate' = [fate EXCEPT ![i] = "resumed"]
    /\ i' = i + 1
    /\ UNCHANGED <<config, fs, remote, pc, startPosition, successCount,
                   skippedCount, response, calls, confirmed, runs, outcome,
                   faults, runFaults, prevFailed, fsAtStart, remoteAtStart,
                   completedRuns>>
    /\ UNCHANGED <<convertVars, retryVars, classifyVars, storeVars,
                   pipelineVars>>

\* loop head, i > startPosition: the try block is entered
Entering ==
    /\ pc = "loop"
    /\ i < NumEvents
    /\ ~IsResumed(i, startPosition)

\* mutation: the answer of the lookup is not looked at
CheckEventExists_IgnoresAnswer ==
    /\ Entering
    /\ checkDuplicates
    /\ LET exists == RemoteHas(remote, EventAt(i).iCalUID) IN
       calls' = Append(calls, Call("list", i, TRUE, IF exists THEN 1 ELSE 0))
    /\ pc' = "import"
    /\ UNCHANGED <<config, fs, remote, i, startPosition, counters, response,
                   fate, confirmed, runs, outcome, faults, runFaults,
                   prevFailed, fsAtStart, remoteAtStart, completedRuns>>
    /\ UNCHANGED <<convertVars, retryVars, classifyVars, storeVars,
                   pipelineVars>>

\* mutation: a skipped duplicate is checkpointed like a success
CheckEventExists_SavesOnSkip ==
    /\ Entering
    /\ checkDuplicates
    /\ LET exists == RemoteHas(remote, EventAt(i).iCalUID) IN
       /\ calls' = Append(calls, Call("list", i, TRUE, IF exists THEN 1 ELSE 0))
       /\ IF exists
          THEN /\ skippedCount' = skippedCount + 1
               /\ fs' = saveCheckpoint(fs, IcsFilePath, i)
               /\ fate' = [fate EXCEPT ![i] = "skipped"]
               /\ i' = i + 1
               /\ pc' = "loop"
          ELSE /\ pc' = "import"
               /\ UNCHANGED <<skippedCount, fs, fate, i>>
    /\ UNCHANGED <<config, remote, startPosition, successCount,
                   resumedCount, response, confirmed, runs, outcome, faults,
                   runFaults, prevFailed, fsAtStart, remoteAtStart,
                   completedRuns>>
    /\ UNCHANGED <<convertVars, retryVars, classifyVars, storeVars,
                   pipelineVars>>

\* checkEventExists answered by the remote side
CheckEventExists ==
    /\ Entering
    /\ checkDuplicates
    /\ LET exists == RemoteHas(remote, EventAt(i).iCalUID) IN
       /\ calls' = Append(calls, Call("list", i, TRUE, IF exists THEN 1 ELSE 0))
       /\ IF exists
          THEN /\ skippedCount' = skippedCount + 1
               /\ fate' = [fate EXCEPT ![i] = "skipped"]
               /\ i' = i + 1
               /\ pc' = "loop"
          ELSE /\ pc' = "import"
               /\ UNCHANGED <<skippedCount, fate, i>>
    /\ UNCHANGED <<config, fs, remote, startPosition, successCount,
                   resumedCount, response, confirmed, runs, outcome, faults,
                   runFaults, prevFailed, fsAtStart, remoteAtStart,
                   completedRuns>>
    /\ UNCHANGED <<convertVars, retryVars, classifyVars, storeVars,
                   pipelineVars>>

\* mutation: a failed lookup is handled like a failed import
CheckEventExistsError_CountsAsFailure ==
    /\ Entering
    /\ checkDuplicates
    /\ faults < MaxFaults
    /\ faults' = faults + 1
    /\ runFaults' = runFaults + 1
    /\ calls' = Append(calls, Call("list", i, FALSE, 0))
    /\ fate' = [fate EXCEPT ![i] = "failed"]
    /\ IF skipErrors
       THEN /\ i' = i + 1
            /\ pc' = "loop"
            /\ UNCHANGED outcome
       ELSE /\ pc' = "idle"
            /\ outcome' = "exit1"
            /\ UNCHANGED i
    /\ UNCHANGED <<config, fs, remote, startPosition, counters, response,
                   confirmed, runs, prevFailed, fsAtStart, remoteAtStart,
                   completedRuns>>
    /\ UNCHANGED <<convertVars, retryVars, classifyVars, storeVars,
                   pipelineVars>>

\* checkEventExists when events.list throws: catch returns false
CheckEventExistsError ==
    /\ Entering
    /\ checkDuplicates
    /\ faults < MaxFaults
    /\ faults' = faults + 1
    /\ runFaults' = runFaults + 1
    /\ calls' = Append(calls, Call("list", i, FALSE, 0))
    /\ pc' = "import"
    /\ UNCHANGED <<config, fs, remote, i, startPosition, counters, response,
                   fate, confirmed, runs, outcome, prevFailed, fsAtStart,
                   remoteAtStart, completedRuns>>
    /\ UNCHANGED <<convertVars, retryVars, classifyVars, storeVars,
                   pipelineVars>>

\* mutation: the loop goes on after a failure whatever skipErrors is
EventError_KeepsGoing ==
    /\ fate' = [fate EXCEPT ![i] = "failed"]
    /\ i' = i + 1
    /\ pc' = "loop"
    /\ UNCHANGED outcome

\* mutation: with skipErrors the failed index is tried again at once
EventError_RetriesSameIndex ==
    IF skipErrors
    THEN /\ pc' = "loop"
         /\ UNCHANGED <<i, outcome, fate>>
    ELSE /\ pc' = "idle"
         /\ outcome' = "exit1"
         /\ fate' = [fate EXCEPT ![i] = "failed"]
         /\ UNCHANGED i

\* catch (eventError): continue when skipErrors, process.exit(1) otherwise
EventError ==
    /\ fate' = [fate EXCEPT ![i] = "failed"]
    /\ IF skipErrors
       THEN /\ i' = i + 1
            /\ pc' = "loop"
            /\ UNCHANGED outcome
       ELSE /\ pc' = "idle"
            /\ outcome' = "exit1"
            /\ UNCHANGED i

\* calendar.events.import answered with the created event
Import ==
    /\ (Entering /\ ~checkDuplicates) \/ pc = "import"
    /\ remote' = RemoteImport(remote, i, EventAt(i))
    /\ response' = Len(remote) + 1
    /\ calls' = Append(calls, Call("import", i, TRUE, Len(remote) + 1))
    /\ IF NeedsUpdate(EventAt(i))
       THEN pc' = "update" /\ UNCHANGED confirmed
       ELSE pc' = "save" /\ confirmed' = confirmed \cup {i}
    /\ UNCHANGED <<config, fs, i, startPosition, counters, fate, runs,
                   outcome, faults, runFaults, prevFailed, fsAtStart,
                   remoteAtStart, completedRuns>>
    /\ UNCHANGED <<convertVars, retryVars, classifyVars, storeVars,
                   pipelineVars>>

\* calendar.events.import throws
ImportError ==
    /\ (Entering /\ ~checkDuplicates) \/ pc = "import"
    /\ faults < MaxFaults
    /\ faults' = faults + 1
    /\ runFaults' = runFaults + 1
    /\ calls' = Append(calls, Call("import", i, FALSE, 0))
    /\ EventError
    /\ UNCHANGED <<config, fs, remote, startPosition, counters, response,
                   confirmed, runs, prevFailed, fsAtStart, remoteAtStart,
                   completedRuns>>
    /\ UNCHANGED <<convertVars, retryVars, classifyVars, storeVars,
                   pipelineVars>>

\* calendar.events.update of eventId: response.data.id answered
Update ==
    /\ pc = "update"
    /\ remote' = RemoteUpdate(remote, response)
    /\ calls' = Append(calls, Call("update", i, TRUE, response))
    /\ confirmed' = confirmed \cup {i}
    /\ pc' = "save"
    /\ UNCHANGED <<config, fs, i, startPosition, counters, response, fate,
                   runs, outcome, faults, runFaults, prevFailed, fsAtStart,
                   remoteAtStart, completedRuns>>
    /\ UNCHANGED <<convertVars, retryVars, classifyVars, storeVars,
                   pipelineVars>>

\* calendar.events.update throws
UpdateError ==
    /\ pc = "update"
    /\ faults < MaxFaults
    /\ faults' = faults + 1
    /\ runFaults' = runFaults + 1
    /\ calls' = Append(calls, Call("update", i, FALSE, response))
    /\ EventError
    /\ UNCHANGED <<config, fs, remote, startPosition, counters, response,
                   confirmed, runs, prevFailed, fsAtStart, remoteAtStart,
                   completedRuns>>
    /\ UNCHANGED <<convertVars, retryVars, classifyVars, storeVars,
                   pipelineVars>>

\* successCount++; this.saveCheckpoint(icsFilePath, i)
Save ==
    /\ pc = "save"
    /\ successCount' = successCount + 1
    /\ fs' = saveCheckpoint(fs, IcsFilePath, i)
    /\ fate' = [fate EXCEPT ![i] = "succeeded"]
    /\ i' = i + 1
    /\ pc' = "loop"
    /\ UNCHANGED <<config, remote, startPosition, skippedCount, resumedCount,
                   response, calls, confirmed, runs, outcome, faults,
                   runFaults, prevFailed, fsAtStart, remoteAtStart,
                   completedRuns>>
    /\ UNCHANGED <<convertVars, retryVars, classifyVars, storeVars,
                   pipelineVars>>

\* after the loop: this.removeCheckpoint(icsFilePath)
Complete ==
    /\ pc = "loop"
    /\ i >= NumEvents
    /\ fs' = removeCheckpoint(fs, IcsFilePath)
    /\ pc' = "idle"
    /\ outcome' = "completed"
    /\ completedRuns' = completedRuns + 1
    /\ UNCHANGED <<config, remote, i, startPosition, counters, response,
                   calls, fate, confirmed, runs, faults, runFaults,
                   prevFailed, fsAtStart, remoteAtStart>>
    /\ UNCHANGED <<convertVars, retryVars, classifyVars, storeVars,
                   pipelineVars>>

\* the process is terminated from outside; its memory is lost
Kill ==
    /\ pc # "idle"
    /\ pc' = "idle"
    /\ outcome' = "killed"
    /\ UNCHANGED <<config, fs, remote, i, startPosition, counters, response,
                   calls, fate, confirmed, runs, faults, runFaults,
                   prevFailed, fsAtStart, remoteAtStart, completedRuns>>
    /\ UNCHANGED <<convertVars, retryVars, classifyVars, storeVars,
                   pipelineVars>>

Next ==
    \/ Start
    \/ Resumed
    \/ CheckEventExists
    \/ CheckEventExistsError
    \/ Import
    \/ ImportError
    \/ Update
    \/ UpdateError
    \/ Save
    \/ Complete
    \/ Kill

Spec == Init /\ [][Next]_vars

\* ---------------------------------------------------- no loop running
LoopOff ==
    /\ events = <<>>
    /\ checkDuplicates = FALSE
    /\ skipErrors = FALSE
    /\ fs = NoFiles
    /\ remote = <<>>
    /\ pc = "idle"
    /\ i = 0
    /\ startPosition = -1
    /\ successCount = 0
    /\ skippedCount = 0
    /\ resumedCount = 0
    /\ response = 0
    /\ calls = <<>>
    /\ fate = <<>>
    /\ confirmed = {}
    /\ runs = 0
    /\ outcome = "none"
    /\ faults = 0
    /\ runFaults = 0
    /\ prevFailed = {}
    /\ fsAtStart = NoFiles
    /\ remoteAtStart = <<>>
    /\ completedRuns = 0

\* ------------------------------------------------------ script values
\* The values an error or an answer is made of.  Reading a property an
\* object does not have yields Undefined, so an object is written with
\* every property the protocol reads.
Undefined == [type |-> "undefined"]

Null == [type |-> "null"]

Str(words) == [type |-> "string", text |-> words]

Num(n) == [type |-> "number", num |-> n]

Response(status) == [type |-> "object", status |-> status]

ErrorObject(msg, resp, cd) ==
    [type |-> "object", message |-> msg, response |-> resp, code |-> cd]

\* new Error(message)
NewError(words) == ErrorObject(Str(words), Undefined, Undefined)

\* String.prototype.includes, on texts taken word by word
Includes(text, phrase) ==
    \E at \in 0..(Len(text) - Len(phrase)) :
       \A k \in 1..Len(phrase) : text[at + k] = phrase[k]

InvalidSequenceValue == <<"Invalid", "sequence", "value">>

MessageTexts ==
    { InvalidSequenceValue,
      <<"Error:", "Invalid", "sequence", "value", "for", "event">>,
      <<"Bad", "Request">>, <<"Forbidden">>, <<"Not", "found">>,
      <<"conflict">>, <<"error">>, <<"some", "other", "error">>, <<>> }

Messages == {Undefined, Null} \cup {Str(m) : m \in MessageTexts}

Responses ==
    {Undefined, Null, Response(Undefined), Response(Num(400)),
     Response(Num(409))}

Codes == {Undefined, Num(409), Num(500)}

\* everything a rejected call may hand to the catch clause
Errors ==
    {Null, Undefined} \cup
    {ErrorObject(m, r, c) : m \in Messages, r \in Responses, c \in Codes}

\* the values that count as false in a condition
Truthy(v) ==
    /\ v.type \notin {"undefined", "null"}
    /\ v.type = "string" => v.text # <<>>
    /\ v.type = "number" => v.num # 0

\* ------------------------------------------- conflict classification
\* mutation: the properties are read without looking at what holds them;
\* reading a property of null or undefined raises a TypeError
isSequenceError_Unguarded(e) ==
    IF e.type # "object" THEN "TypeError"
    ELSE IF e.message.type # "string" THEN "TypeError"
    ELSE IF Includes(e.message.text, InvalidSequenceValue) THEN "true"
    ELSE IF e.response.type # "object" THEN "TypeError"
    ELSE IF e.response.status = Num(409) \/ e.code = Num(409) THEN "true"
    ELSE "false"

\* isSequenceError: "true" or "false", "TypeError" when it raises
isSequenceError(e) ==
    IF ~Truthy(e) THEN "false"
    ELSE IF \/ /\ e.message.type = "string"
               /\ Includes(e.message.text, InvalidSequenceValue)
            \/ /\ Truthy(e.response)
               /\ e.response.status = Num(409)
            \/ e.code = Num(409)
         THEN "true"
         ELSE "false"

InitClassify ==
    /\ LoopOff
    /\ ConvertOff
    /\ RetryOff
    /\ StoreOff
    /\ PipelineOff
    /\ error \in Errors
    /\ classified = "none"

Classify ==
    /\ classified = "none"
    /\ classified' = isSequenceError(error)
    /\ UNCHANGED <<error, loopVars, convertVars, retryVars, storeVars,
                   pipelineVars>>

NextClassify == Classify

SpecClassify == InitClassify /\ [][NextClassify]_vars

\* ------------------------------------------- sequence-conflict retry
\* data of an events.get answer: the event with or without its sequence
NoSequence == [p \in {} |-> 0]

SequenceData == {NoSequence} \cup {[sequence |-> n] : n \in {0, 1, 5}}

\* the errors events.update is rejected with
UpdateErrors ==
    { NewError(InvalidSequenceValue),
      ErrorObject(Str(<<"conflict">>), Response(Num(409)), Undefined),
      ErrorObject(Str(<<"error">>), Undefined, Num(409)),
      NewError(<<"some", "other", "error">>),
      ErrorObject(Str(<<"Bad", "Request">>), Response(Num(400)), Undefined),
      ErrorObject(Str(<<"error">>), Undefined, Num(500)),
      Null }

\* currentEvent.data.sequence || 0
SequenceOrZero(d) ==
    IF "sequence" \in DOMAIN d /\ d.sequence # 0 THEN d.sequence ELSE 0

\* mutation: the fetched counter is sent back as it is
SubmittedSequence_NotIncremented(d) == SequenceOrZero(d)

\* resource.sequence of the update: the fetched counter plus one
SubmittedSequence(d) == SequenceOrZero(d) + 1

\* mutation: every rejected update is tried again
ShouldRetry_AnyError(e) == TRUE

\* a rejected update is tried again only for a sequence conflict
ShouldRetry(e) == isSequenceError(e) = "true"

\* mutation: the loop falls through and the call returns nothing
Exhausted_ReturnsUndefined(e) ==
    [rpc |-> "returned", result |-> "undefined", thrown |-> Undefined]

\* the ceiling is reached: the last error is raised
Exhausted(e) == [rpc |-> "thrown", result |-> "none", thrown |-> e]

InitRetry ==
    /\ LoopOff
    /\ ConvertOff
    /\ ClassifyOff
    /\ StoreOff
    /\ PipelineOff
    /\ maxRetries \in 1..MaxRetries
    /\ attempt = 0
    /\ rpc = "get"
    /\ data = NoSequence
    /\ lastError = Undefined
    /\ result = "none"
    /\ thrown = Undefined
    /\ gets = <<>>
    /\ updates = <<>>

\* await this.calendar.events.get(...)
EventsGet ==
    /\ rpc = "get"
    /\ \E d \in SequenceData :
          /\ data' = d
          /\ gets' = Append(gets, d)
    /\ rpc' = "update"
    /\ UNCHANGED <<maxRetries, attempt, lastError, result, thrown, updates,
                   loopVars, convertVars, classifyVars, storeVars,
                   pipelineVars>>

\* await this.calendar.events.update(...) answered
EventsUpdateResolves ==
    /\ rpc = "update"
    /\ updates' = Append(updates, [sequence |-> SubmittedSequence(data),
                                   ok |-> TRUE, error |-> Undefined])
    /\ result' = "response"
    /\ rpc' = "returned"
    /\ UNCHANGED <<maxRetries, attempt, data, lastError, thrown, gets,
                   loopVars, convertVars, classifyVars, storeVars,
                   pipelineVars>>

\* await this.calendar.events.update(...) rejected, and the catch clause
EventsUpdateRejects ==
    /\ rpc = "update"
    /\ \E e \in UpdateErrors :
          /\ updates' = Append(updates, [sequence |-> SubmittedSequence(data),
                                         ok |-> FALSE, error |-> e])
          /\ lastError' = e
          /\ attempt' = attempt + 1
          /\ IF ~ShouldRetry(e)
             THEN /\ rpc' = "thrown"
                  /\ thrown' = e
                  /\ UNCHANGED result
             ELSE IF attempt + 1 < maxRetries
             THEN /\ rpc' = "get"
                  /\ UNCHANGED <<result, thrown>>
             ELSE /\ rpc' = Exhausted(e).rpc
                  /\ result' = Exhausted(e).result
                  /\ thrown' = Exhausted(e).thrown
    /\ UNCHANGED <<maxRetries, data, gets, loopVars, convertVars,
                   classifyVars, storeVars, pipelineVars>>

NextRetry ==
    \/ EventsGet
    \/ EventsUpdateResolves
    \/ EventsUpdateRejects

SpecRetry == InitRetry /\ [][NextRetry]_vars

\* ------------------------------------------------- texts of an event
\* A text is a sequence of pieces: the characters that matter to the
\* patterns of the source stand alone ("@", ".", " ", "_", "R", "T", the
\* digits), the runs between them are one piece each.  The empty text and
\* null are both <<>>: the source only ever tests them with if (...).
IsSpace(c) == c = " "

RECURSIVE TrimStart(_)
TrimStart(text) ==
    IF text # <<>> /\ IsSpace(Head(text)) THEN TrimStart(Tail(text))
    ELSE text

RECURSIVE TrimEnd(_)
TrimEnd(text) ==
    IF text # <<>> /\ IsSpace(text[Len(text)])
    THEN TrimEnd(SubSeq(text, 1, Len(text) - 1))
    ELSE text

\* String.prototype.trim
Trim(text) == TrimEnd(TrimStart(text))

\* email.replace(/^mailto:/i, "")
StripMailto(text) ==
    IF text # <<>> /\ Head(text) \in {"mailto:", "MAILTO:", "Mailto:"}
    THEN Tail(text)
    ELSE text

\* extractEmail for a property value that is a string or missing
extractEmail(emailData) ==
    IF emailData = <<>> THEN <<>>
    ELSE Trim(StripMailto(emailData))

\* one or more characters that are neither white space nor "@"
NoSpaceNoAt(text) ==
    /\ text # <<>>
    /\ \A k \in 1..Len(text) : ~IsSpace(text[k]) /\ text[k] # "@"

\* EMAIL_REGEX.test(email): /^[^\s@]+@[^\s@]+\.[^\s@]+$/
isValidEmail(email) ==
    \E at \in 1..Len(email), dot \in 1..Len(email) :
       /\ at < dot
       /\ email[at] = "@"
       /\ email[dot] = "."
       /\ NoSpaceNoAt(SubSeq(email, 1, at - 1))
       /\ NoSpaceNoAt(SubSeq(email, at + 1, dot - 1))
       /\ NoSpaceNoAt(SubSeq(email, dot + 1, Len(email)))

AllDigits(text) == \A k \in 1..Len(text) : IsDigit(text[k])

\* T?\d*(@.+)?$ on what follows the eight digits
MatchesTimeAndSuffix(rest) ==
    \E t \in 0..1, d \in 0..Len(rest) :
       /\ t + d <= Len(rest)
       /\ t = 1 => rest[1] = "T"
       /\ AllDigits(SubSeq(rest, t + 1, t + d))
       /\ \/ t + d = Len(rest)
          \/ /\ t + d + 2 <= Len(rest)
             /\ rest[t + d + 1] = "@"

\* icsEvent.uid.match(/^(.+)_R\d{8}T?\d*(@.+)?$/)
MatchesRecurringInstance(uid) ==
    \E p \in 2..Len(uid) :
       /\ p + 9 <= Len(uid)
       /\ uid[p] = "_"
       /\ uid[p + 1] = "R"
       /\ AllDigits(SubSeq(uid, p + 2, p + 9))
       /\ MatchesTimeAndSuffix(SubSeq(uid, p + 10, Len(uid)))

\* --------------------------------------------------- event conversion
\* an object without properties
EmptyObject == [p \in {} |-> <<>>]

\* { ...a, ...b }
Merge(a, b) ==
    [p \in DOMAIN a \cup DOMAIN b |-> IF p \in DOMAIN b THEN b[p] ELSE a[p]]

\* table[key] || fallback: the tables are keyed by text
Lookup(table, key, fallback) ==
    IF key \in DOMAIN table /\ table[key] # <<>> THEN table[key]
    ELSE fallback

\* String(n).padStart(width, "0")
RECURSIVE padStart(_, _)
padStart(text, width) ==
    IF Len(text) >= width THEN text ELSE padStart(<<"0">> \o text, width)

\* Date.prototype.toISOString of a time given in UTC
toISOString(time) ==
    padStart(toString(time.year), 4) \o <<"-">> \o
    padStart(toString(time.month), 2) \o <<"-">> \o
    padStart(toString(time.day), 2) \o <<"T">> \o
    padStart(toString(time.hour), 2) \o <<":">> \o
    padStart(toString(time.minute), 2) \o <<":">> \o
    padStart(toString(time.second), 2) \o <<".", "0", "0", "0", "Z">>

\* { dateTime: time.toJSDate().toISOString(), timeZone: time.timezone || "UTC" }
DateTime(time) ==
    [dateTime |-> toISOString(time),
     timeZone |-> IF time.timezone # "" THEN time.timezone ELSE "UTC"]

convertPartStat(partstat) ==
    CASE partstat = "ACCEPTED" -> "accepted"
      [] partstat = "DECLINED" -> "declined"
      [] partstat = "TENTATIVE" -> "tentative"
      [] partstat = "NEEDS-ACTION" -> "needsAction"
      [] OTHER -> "needsAction"

\* parts.join(separator)
RECURSIVE Join(_, _)
Join(parts, separator) ==
    IF parts = <<>> THEN <<>>
    ELSE IF Len(parts) = 1 THEN parts[1]
    ELSE parts[1] \o <<separator>> \o Join(Tail(parts), separator)

\* one entry of byday as text: a string as it is, an object as its
\* position and day, anything else as ""
DayText(d) ==
    IF "str" \in DOMAIN d THEN (IF d.str # "" THEN <<d.str>> ELSE <<>>)
    ELSE IF d.day # ""
         THEN (IF d.pos # 0 THEN toString(d.pos) ELSE <<>>) \o <<d.day>>
         ELSE <<>>

\* `${year}${month}${day}T${hour}${minute}${second}Z` of a time in UTC
UntilText(time) ==
    toString(time.year) \o padStart(toString(time.month), 2) \o
    padStart(toString(time.day), 2) \o <<"T">> \o
    padStart(toString(time.hour), 2) \o padStart(toString(time.minute), 2) \o
    padStart(toString(time.second), 2) \o <<"Z">>

\* numbers.join(",")
JoinNumbers(numbers) ==
    Join([k \in 1..Len(numbers) |-> toString(numbers[k])], ",")

\* a property read inside the try block raises: until has no toJSDate
Throws(rrule) ==
    rrule.until # <<>> /\ "year" \notin DOMAIN rrule.until[1]

\* mutation: a rule without parts is returned as the bare prefix
RuleText_BarePrefix(parts) == Str(<<"RRULE:">> \o Join(parts, ";"))

\* parts.length > 0 ? ruleStr + parts.join(";") : null
RuleText(parts) ==
    IF Len(parts) > 0 THEN Str(<<"RRULE:">> \o Join(parts, ";")) ELSE Null

\* convertICalRRuleToGoogle: interval and count are 0, the texts "" and
\* the lists <<>> when the rule does not have them
convertICalRRuleToGoogle(rrule) ==
    LET freq == IF rrule.freq # "" THEN <<(<<"FREQ=", rrule.freq>>)>>
                ELSE <<>>
        interval == IF rrule.interval > 1
                    THEN <<(<<"INTERVAL=">> \o toString(rrule.interval))>>
                    ELSE <<>>
        until == IF rrule.until # <<>>
                 THEN <<(<<"UNTIL=">> \o UntilText(rrule.until[1]))>>
                 ELSE <<>>
        count == IF rrule.count # 0
                 THEN <<(<<"COUNT=">> \o toString(rrule.count))>>
                 ELSE <<>>
        days == SelectSeq([k \in 1..Len(rrule.byday) |->
                              DayText(rrule.byday[k])],
                          LAMBDA d : d # <<>>)
        byday == IF Len(days) > 0
                 THEN <<(<<"BYDAY=">> \o Join(days, ","))>>
                 ELSE <<>>
        bymonthday == IF Len(rrule.bymonthday) > 0
                      THEN <<(<<"BYMONTHDAY=">> \o
                              JoinNumbers(rrule.bymonthday))>>
                      ELSE <<>>
        bymonth == IF Len(rrule.bymonth) > 0
                   THEN <<(<<"BYMONTH=">> \o JoinNumbers(rrule.bymonth))>>
                   ELSE <<>>
    IN  IF Throws(rrule) THEN Null
        ELSE RuleText(freq \o interval \o until \o count \o byday \o
                      bymonthday \o bymonth)

\* mutation: the alias table is not consulted
ResolveEmail_IgnoresAliases(aliases, originalEmail) == originalEmail

\* this.emailAliases[originalEmail] || originalEmail
ResolveEmail(aliases, originalEmail) ==
    Lookup(aliases, originalEmail, originalEmail)

\* finalEmail of an organizer or attendee property, <<>> when there is none
FinalEmail(prop, aliases, names) ==
    LET originalEmail == extractEmail(prop.value) IN
    IF originalEmail # <<>> THEN ResolveEmail(aliases, originalEmail)
    ELSE IF prop.cn # <<>> THEN Lookup(names, prop.cn, <<>>)
    ELSE <<>>

\* the name is given, the address is not, and the name is not in the table
NoMappingFound(prop, names) ==
    /\ extractEmail(prop.value) = <<>>
    /\ prop.cn # <<>>
    /\ Lookup(names, prop.cn, <<>>) = <<>>

\* { email: finalEmail, displayName: finalName || finalEmail }
Identity(prop, finalEmail) ==
    [email |-> finalEmail,
     displayName |-> IF prop.cn # <<>> THEN prop.cn ELSE finalEmail]

\* the for loop over attendeeProps
RECURSIVE ConvertAttendees(_, _, _)
ConvertAttendees(attendeeProps, aliases, names) ==
    IF attendeeProps = <<>> THEN <<>>
    ELSE LET prop == Head(attendeeProps)
             finalEmail == FinalEmail(prop, aliases, names)
             rest == ConvertAttendees(Tail(attendeeProps), aliases, names)
         IN  IF finalEmail # <<>>
             THEN <<Merge(Identity(prop, finalEmail),
                          [responseStatus |-> convertPartStat(prop.partstat),
                           optional |-> FALSE])>> \o rest
             ELSE rest

\* mutation: an attendees list left empty stays on the event
AttendeesField_KeepsEmpty(attendeeProps, aliases, names) ==
    IF Len(attendeeProps) > 0
    THEN [attendees |-> ConvertAttendees(attendeeProps, aliases, names)]
    ELSE EmptyObject

\* event.attendees = [] ... if (event.attendees.length === 0) delete
AttendeesField(attendeeProps, aliases, names) ==
    LET attendees == ConvertAttendees(attendeeProps, aliases, names) IN
    IF Len(attendeeProps) > 0 /\ Len(attendees) > 0
    THEN [attendees |-> attendees]
    ELSE EmptyObject

OrganizerField(organizerProp, aliases, names) ==
    LET finalEmail == FinalEmail(organizerProp, aliases, names) IN
    IF finalEmail # <<>>
    THEN [organizer |-> Identity(organizerProp, finalEmail)]
    ELSE EmptyObject

\* if (recurrence) event.recurrence = [recurrence]
RecurrenceField(rruleProp) ==
    LET recurrence == convertICalRRuleToGoogle(rruleProp[1]) IN
    IF rruleProp # <<>> /\ recurrence # Null /\ recurrence.text # <<>>
    THEN [recurrence |-> <<recurrence.text>>]
    ELSE EmptyObject

\* mutation: the pattern is tried on exceptions as well
IsSkippedInstance_IgnoresException(ev) ==
    ev.uid # <<>> /\ MatchesRecurringInstance(ev.uid)

\* the event is an instance of a series that is imported as a whole
IsSkippedInstance(ev) ==
    /\ ev.uid # <<>>
    /\ ev.recurrenceId = <<>>
    /\ MatchesRecurringInstance(ev.uid)

\* mutation: an event without uid gets no identifier
ICalUID_NoFallback(ev, generated) == ev.uid

\* icsEvent.uid || `imported-${Date.now()}-${Math.random()...}`
ICalUID(ev, generated) == IF ev.uid # <<>> THEN ev.uid ELSE generated

\* convertICSToGoogleEvent; generated is the identifier made of Date.now()
\* and Math.random() for an event without uid
convertICSToGoogleEvent(ev, aliases, names, generated) ==
    IF IsSkippedInstance(ev) THEN Null
    ELSE
    LET isRecurrenceException == ev.recurrenceId # <<>>
        base == [summary |-> ev.summary,
                 description |-> ev.description,
                 location |-> ev.location,
                 iCalUID |-> ICalUID(ev, generated)]
        exception ==
            IF isRecurrenceException
            THEN [originalStartTime |-> DateTime(ev.recurrenceId[1]),
                  _isRecurrenceException |-> TRUE]
            ELSE EmptyObject
        start == IF ev.startDate # <<>>
                 THEN [start |-> DateTime(ev.startDate[1])] ELSE EmptyObject
        end == IF ev.endDate # <<>>
               THEN [end |-> DateTime(ev.endDate[1])] ELSE EmptyObject
        event == Merge(Merge(Merge(Merge(base, exception), start), end),
                       RecurrenceField(ev.rrule))
    IN  IF ev.organizer # <<>> /\ NoMappingFound(ev.organizer[1], names)
        THEN event
        ELSE Merge(Merge(event,
                         IF ev.organizer # <<>>
                         THEN OrganizerField(ev.organizer[1], aliases, names)
                         ELSE EmptyObject),
                   AttendeesField(ev.attendees, aliases, names))

\* ------------------------------------------ the events handed over
John == <<"john", "@", "example", ".", "com">>

Jane == <<"jane", "@", "example", ".", "com">>

InvalidEmailFormat == <<"invalid_email_format">>

\* the identity tables as prepareEmails leaves them: every value is an
\* address the prompt or isValidEmail accepted
AliasTables ==
    { <<>>,
      [e \in {InvalidEmailFormat} |-> <<"fixed", "@", "example", ".", "com">>],
      [e \in {John} |-> <<"j", ".", "doe", "@", "corp", ".", "example">>],
      [e \in {InvalidEmailFormat, John} |->
          IF e = John THEN <<"j", ".", "doe", "@", "corp", ".", "example">>
          ELSE <<"fixed", "@", "example", ".", "com">>] }

NameTables ==
    { <<>>,
      [n \in {<<"No Email Person">>} |->
          <<"noemail", "@", "example", ".", "com">>] }

Date20240315 == <<"2", "0", "2", "4", "0", "3", "1", "5">>

\* uid of an event: none, plain, and around the pattern of an instance
Uids ==
    { <<>>,
      <<"a", "@", "x">>,
      <<"a", "_", "R">> \o Date20240315,
      <<"a", "_", "R">> \o Date20240315 \o <<"T", "1", "4", "0", "0", "@", "x">>,
      <<"a", "_", "R">> \o Date20240315 \o <<"T">>,
      <<"a", "_", "R">> \o Date20240315 \o <<"1", "4", "@", "x", ".", "y">>,
      <<"_", "R">> \o Date20240315,
      <<"a", "_", "R">> \o SubSeq(Date20240315, 1, 7),
      <<"a", "_", "R">> \o Date20240315 \o <<"@">>,
      <<"a", "_", "R">> \o Date20240315 \o <<"Z">>,
      <<"a", "_", "r">> \o Date20240315 }

Time(h, zone) ==
    [year |-> 2024, month |-> 3, day |-> 15, hour |-> h, minute |-> 0,
     second |-> 0, timezone |-> zone]

\* TZID of a time: none, an IANA identifier, a legacy name
Zones == {"", "Europe/Berlin", "Central Standard Time"}

\* a rule as ICAL.Recur or a test hands it over
Rule(freq, interval, until, count, byday, bymonthday, bymonth, bysetpos) ==
    [freq |-> freq, interval |-> interval, until |-> until, count |-> count,
     byday |-> byday, bymonthday |-> bymonthday, bymonth |-> bymonth,
     bysetpos |-> bysetpos]

WeeklyRule == Rule("WEEKLY", 2, <<>>, 10, <<[str |-> "WE"]>>, <<>>, <<>>, <<>>)

\* RRULE of an event: none, one without any part, one with the usual
\* parts, one whose parts are all left out by the translation, one with
\* an end and days of the month, one whose until is not a time, one
\* whose days are objects
RRules ==
    { <<>>,
      <<Rule("", 0, <<>>, 0, <<>>, <<>>, <<>>, <<>>)>>,
      <<WeeklyRule>>,
      <<Rule("", 1, <<>>, 0, <<[str |-> ""], [day |-> "", pos |-> 0]>>,
             <<>>, <<>>, <<1>>)>>,
      <<Rule("", 0, <<Time(23, "")>>, 0, <<>>, <<1, 15>>, <<3>>, <<>>)>>,
      <<Rule("WEEKLY", 0, <<[text |-> "20241231T235959Z"]>>, 0, <<>>, <<>>,
             <<>>, <<>>)>>,
      <<Rule("MONTHLY", 0, <<>>, 0,
             <<[day |-> "MO", pos |-> 1], [day |-> "FR", pos |-> 0]>>,
             <<>>, <<>>, <<>>)>> }

\* ORGANIZER properties: the value after the colon and the CN parameter
OrganizerProps ==
    { [value |-> <<"mailto:">> \o John, cn |-> <<"John Doe">>],
      [value |-> <<"MAILTO:">> \o John, cn |-> <<>>],
      [value |-> InvalidEmailFormat, cn |-> <<"Bad Address">>],
      [value |-> <<>>, cn |-> <<"Unknown Person">>],
      [value |-> <<"mailto:", " ">>, cn |-> <<"Unknown Person">>],
      [value |-> <<>>, cn |-> <<"No Email Person">>],
      [value |-> <<>>, cn |-> <<>>] }

\* ATTENDEE properties: value, CN and PARTSTAT ("" when not given)
AttendeeProps ==
    { [value |-> <<"mailto:">> \o John, cn |-> <<"John Doe">>,
       partstat |-> "ACCEPTED"],
      [value |-> <<" ">> \o Jane \o <<" ">>, cn |-> <<>>, partstat |-> ""],
      [value |-> InvalidEmailFormat, cn |-> <<"Bad Address">>,
       partstat |-> "DECLINED"],
      [value |-> <<>>, cn |-> <<"Unknown Person">>,
       partstat |-> "TENTATIVE"],
      [value |-> <<>>, cn |-> <<"No Email Person">>,
       partstat |-> "NEEDS-ACTION"],
      [value |-> <<>>, cn |-> <<>>, partstat |-> "DELEGATED"] }

Optional(S) == {<<>>} \cup {<<x>> : x \in S}

IcsEvent(uid, recurrenceId, startDate, endDate, rrule, organizer, attendees) ==
    [uid |-> uid, summary |-> <<"Meeting">>, description |-> <<>>,
     location |-> <<>>, recurrenceId |-> recurrenceId,
     startDate |-> startDate, endDate |-> endDate, rrule |-> rrule,
     organizer |-> organizer, attendees |-> attendees]

\* events told apart by uid, exception marker, dates and rule
PlainEvents ==
    { IcsEvent(uid, rid, st, en, rr, <<>>, <<>>) :
        uid \in Uids,
        rid \in Optional({Time(14, z) : z \in Zones}),
        st \in Optional({Time(15, z) : z \in Zones}),
        en \in Optional({Time(16, "")}),
        rr \in RRules }

\* events told apart by their organizer and attendees
MeetingEvents ==
    { IcsEvent(uid, rid, <<Time(15, "")>>, <<Time(16, "")>>, rr, org, att) :
        uid \in {<<"a", "@", "x">>, <<"a", "_", "R">> \o Date20240315},
        rid \in Optional({Time(14, "")}),
        rr \in {<<>>, <<WeeklyRule>>},
        org \in Optional(OrganizerProps),
        att \in UNION {SeqsOfLen(AttendeeProps, n) : n \in 0..MaxAttendees} }

\* String.prototype.substr(start, length)
substr(text, start, length) ==
    SubSeq(text, start + 1,
           IF start + length < Len(text) THEN start + length ELSE Len(text))

\* Math.random() as the base-36 digits after the point: none for 0
Randoms ==
    { <<>>,
      <<"i">>,
      <<"k", "3", "x", "9", "q", "0", "z", "1", "a", "4", "b">> }

\* Number.prototype.toString(36) of a number in [0, 1)
toString36(random) ==
    IF random = <<>> THEN <<"0">> ELSE <<"0", ".">> \o random

\* Date.now() and Math.random().toString(36).substr(2, 9); the clock
\* values are cut to what a 32-bit integer holds
GeneratedIds ==
    { <<"imported-">> \o toString(now) \o <<"-">> \o
      substr(toString36(random), 2, 9) :
        now \in {1710511200, 1710511201},
        random \in Randoms }

NotConverted == [pending |-> TRUE]

InitConvert ==
    /\ LoopOff
    /\ RetryOff
    /\ ClassifyOff
    /\ StoreOff
    /\ PipelineOff
    /\ \/ /\ icsEvent \in PlainEvents
          /\ emailAliases = <<>>
          /\ nameToEmail = <<>>
       \/ /\ icsEvent \in MeetingEvents
          /\ emailAliases \in AliasTables
          /\ nameToEmail \in NameTables
    /\ googleEvent = NotConverted

\* const googleEvent = this.convertICSToGoogleEvent(event)
Convert ==
    /\ googleEvent = NotConverted
    /\ \E generated \in GeneratedIds :
          googleEvent' = convertICSToGoogleEvent(icsEvent, emailAliases,
                                                 nameToEmail, generated)
    /\ UNCHANGED <<emailAliases, nameToEmail, icsEvent, loopVars, retryVars,
                   classifyVars, storeVars, pipelineVars>>

NextConvert == Convert

SpecConvert == InitConvert /\ [][NextConvert]_vars

\* ------------------------------------- the checkpoint store on its own
\* the files the store is called for
IcsFilePaths == {IcsFilePath, "other.ics"}

\* the positions handed to saveCheckpoint
Positions == {0, 9, 10, 99, 100, MaxPosition}

StoreCall(op, path, value, existed) ==
    [op |-> op, path |-> path, value |-> value, existed |-> existed]

\* a fresh directory, or one with a sidecar an earlier run left behind
InitStore ==
    /\ LoopOff
    /\ ConvertOff
    /\ RetryOff
    /\ ClassifyOff
    /\ PipelineOff
    /\ disk \in {NoFiles, saveCheckpoint(NoFiles, IcsFilePath, 5)}
    /\ ops = <<>>

SaveCheckpoint ==
    /\ Len(ops) < MaxOps
    /\ \E path \in IcsFilePaths, position \in Positions :
          /\ disk' = saveCheckpoint(disk, path, position)
          /\ ops' = Append(ops, StoreCall("save", path, position,
                                          ExistsSync(disk, SidecarPath(path))))
    /\ UNCHANGED <<loopVars, convertVars, retryVars, classifyVars,
                   pipelineVars>>

LoadCheckpoint ==
    /\ Len(ops) < MaxOps
    /\ \E path \in IcsFilePaths :
          ops' = Append(ops, StoreCall("load", path,
                                      loadCheckpoint(disk, path),
                                      ExistsSync(disk, SidecarPath(path))))
    /\ UNCHANGED <<disk, loopVars, convertVars, retryVars, classifyVars,
                   pipelineVars>>

RemoveCheckpoint ==
    /\ Len(ops) < MaxOps
    /\ \E path \in IcsFilePaths :
          /\ disk' = removeCheckpoint(disk, path)
          /\ ops' = Append(ops, StoreCall("remove", path, -1,
                                          ExistsSync(disk, SidecarPath(path))))
    /\ UNCHANGED <<loopVars, convertVars, retryVars, classifyVars,
                   pipelineVars>>

NextStore == SaveCheckpoint \/ LoadCheckpoint \/ RemoveCheckpoint

SpecStore == InitStore /\ [][NextStore]_vars

\* ------------------------------------ prepareEmails, generateEventsJSON
\* table[key] = value
Put(table, key, value) ==
    [k \in DOMAIN table \cup {key} |-> IF k = key THEN value ELSE table[k]]

\* Set.prototype.add, the set kept in insertion order
Add(found, x) ==
    IF \E k \in 1..Len(found) : found[k] = x THEN found ELSE Append(found, x)

\* the ORGANIZER and the ATTENDEE properties in the order the scan reads them
PropsOf(ev) == ev.organizer \o ev.attendees

RECURSIVE ScanProps(_, _)
ScanProps(props, found) ==
    IF props = <<>> THEN found
    ELSE LET email == extractEmail(Head(props).value)
             name == Head(props).cn
         IN  ScanProps(Tail(props),
                IF email # <<>>
                THEN [found EXCEPT !.emails = Add(@, email)]
                ELSE IF name # <<>>
                     THEN [found EXCEPT !.names = Add(@, name)]
                     ELSE found)

RECURSIVE ScanEvents(_, _)
ScanEvents(evs, found) ==
    IF evs = <<>> THEN found
    ELSE ScanEvents(Tail(evs), ScanProps(PropsOf(Head(evs)), found))

\* mutation: the scan reads the organizer only
extractAllEmailsAndNames_OrganizerOnly(evs) ==
    ScanEvents([k \in 1..Len(evs) |-> [evs[k] EXCEPT !.attendees = <<>>]],
               [emails |-> <<>>, names |-> <<>>])

extractAllEmailsAndNames(evs) ==
    ScanEvents(evs, [emails |-> <<>>, names |-> <<>>])

\* mutation: hasRecurrence is read off the rule of the source
MetadataOf_RuleOfSource(ev, converted) ==
    [isRecurrenceException |-> "_isRecurrenceException" \in DOMAIN converted,
     hasRecurrence |-> ev.rrule # <<>>,
     originalICalUID |-> ev.uid,
     originalSummary |-> ev.summary]

\* _metadata: !! of a flag that is true or missing, and of a list
MetadataOf(ev, converted) ==
    [isRecurrenceException |-> "_isRecurrenceException" \in DOMAIN converted,
     hasRecurrence |-> "recurrence" \in DOMAIN converted,
     originalICalUID |-> ev.uid,
     originalSummary |-> ev.summary]

\* { ...googleEvent, _metadata: { ... } }
EventDataOf(ev, converted) ==
    Merge(converted, [_metadata |-> MetadataOf(ev, converted)])

\* where prepareEmails goes on at entry k of the emails, of the names
AtName(k) ==
    IF k <= Len(foundNames) THEN [step |-> "names", cursor |-> k]
    ELSE [step |-> "generate", cursor |-> 0]

AtEmail(k) ==
    IF k <= Len(foundEmails) THEN [step |-> "emails", cursor |-> k]
    ELSE AtName(1)

\* if (newEmailMappings > 0) saveEmailAliases(); the same for the names
Saved(counts) ==
    {file \in {"email-aliases.json", "name-to-email.json"} :
        \/ file = "email-aliases.json" /\ counts.newEmailMappings > 0
        \/ file = "name-to-email.json" /\ counts.newNameMappings > 0}

\* what is typed at a prompt; the prompt asks again unless the trimmed
\* line is a valid address
PromptAnswers ==
    { <<" ", "fixed", "@", "example", ".", "com">>,
      <<" ">>,
      InvalidEmailFormat }

Accepted(answer) == Trim(answer) # <<>> /\ isValidEmail(Trim(answer))

Titled(ev, summary) == [ev EXCEPT !.summary = summary]

\* the events of the calendar: a plain meeting, a weekly series, a moved
\* occurrence of it, an occurrence listed on its own, people whose address
\* is invalid or missing, and an event without uid
Vevents ==
    { Titled(IcsEvent(<<"simple", "@", "x">>, <<>>, <<Time(15, "")>>,
                      <<Time(16, "")>>, <<>>,
                      <<[value |-> <<"mailto:">> \o John,
                         cn |-> <<"John Doe">>]>>,
                      <<[value |-> <<" ">> \o Jane \o <<" ">>, cn |-> <<>>,
                         partstat |-> ""]>>),
             <<"Simple Meeting">>),
      Titled(IcsEvent(<<"weekly", "@", "x">>, <<>>, <<Time(15, "")>>,
                      <<Time(16, "")>>, <<WeeklyRule>>, <<>>, <<>>),
             <<"Weekly Team Meeting">>),
      Titled(IcsEvent(<<"weekly", "_", "R">> \o Date20240315 \o <<"@", "x">>,
                      <<Time(14, "")>>, <<Time(15, "")>>, <<Time(16, "")>>,
                      <<>>, <<>>, <<>>),
             <<"Weekly Team Meeting (Moved)">>),
      Titled(IcsEvent(<<"weekly", "_", "R">> \o Date20240315 \o <<"@", "x">>,
                      <<>>, <<Time(15, "")>>, <<Time(16, "")>>, <<>>, <<>>,
                      <<>>),
             <<"Weekly Team Meeting Instance">>),
      Titled(IcsEvent(<<"invalid", "@", "x">>, <<>>, <<Time(15, "")>>,
                      <<Time(16, "")>>, <<>>,
                      <<[value |-> InvalidEmailFormat,
                         cn |-> <<"Bad Address">>]>>,
                      <<[value |-> <<>>, cn |-> <<"Unknown Person">>,
                         partstat |-> "TENTATIVE"]>>),
             <<"Invalid Email Meeting">>),
      Titled(IcsEvent(<<"names", "@", "x">>, <<>>, <<Time(15, "")>>,
                      <<Time(16, "")>>, <<>>,
                      <<[value |-> <<>>, cn |-> <<"No Email Person">>]>>,
                      <<[value |-> <<"mailto:">> \o John,
                         cn |-> <<"John Doe">>, partstat |-> "ACCEPTED"],
                        [value |-> <<>>, cn |-> <<>>,
                         partstat |-> "DELEGATED"]>>),
             <<"Names Only">>),
      Titled(IcsEvent(<<>>, <<>>, <<Time(15, "")>>, <<>>,
                      <<Rule("", 1, <<>>, 0, <<>>, <<>>, <<>>, <<1>>)>>,
                      <<>>, <<>>),
             <<"No UID Event">>) }

Calendars == UNION {SeqsOfLen(Vevents, k) : k \in 0..MaxVevents}

\* the tables as the constructor loads them from data/
LoadedAliases ==
    { <<>>,
      [e \in {John} |-> <<"j", ".", "doe", "@", "corp", ".", "example">>] }

NoCounts ==
    [emailPrompts |-> 0, namePrompts |-> 0, newEmailMappings |-> 0,
     newNameMappings |-> 0, rejected |-> 0]

\* the prompts and table writes so far, with the tables
Snapshot ==
    [counts |-> audit.counts, emailAliases |-> emailAliases,
     nameToEmail |-> nameToEmail]

\* `prepare <file>`, or generateEventsJSON called by itself
InitPipeline ==
    /\ LoopOff
    /\ RetryOff
    /\ ClassifyOff
    /\ StoreOff
    /\ icsEvent = <<>>
    /\ googleEvent = <<>>
    /\ emailAliases \in LoadedAliases
    /\ nameToEmail \in NameTables
    /\ vevents \in Calendars
    /\ step \in {"prepare", "generate"}
    /\ foundEmails = <<>>
    /\ foundNames = <<>>
    /\ cursor = 0
    /\ output = [events |-> <<>>, skippedCount |-> 0]
    /\ jsonl = <<>>
    /\ audit = [command |-> step, counts |-> NoCounts, saved |-> {},
                atGenerate |-> <<>>]

\* const { emails, names } = await this.extractAllEmailsAndNames(...)
Scan ==
    /\ step = "prepare"
    /\ LET found == extractAllEmailsAndNames(vevents) IN
       /\ foundEmails' = found.emails
       /\ foundNames' = found.names
       /\ IF found.emails = <<>> /\ found.names = <<>>
          THEN step' = "returned" /\ cursor' = 0
          ELSE IF found.emails # <<>>
               THEN step' = "emails" /\ cursor' = 1
               ELSE step' = "names" /\ cursor' = 1
    /\ UNCHANGED <<vevents, output, jsonl, audit, loopVars, convertVars,
                   retryVars, classifyVars, storeVars>>

\* prepareEmails goes on at the position with the counts, and saves the
\* tables once the loops are over
Advance(position, counts) ==
    /\ step' = position.step
    /\ cursor' = position.cursor
    /\ audit' = [audit EXCEPT !.counts = counts,
                              !.saved = IF position.step = "generate"
                                        THEN Saved(counts) ELSE @]

\* a line typed at a prompt is turned down: the prompt asks again
AskAgain ==
    /\ audit.counts.rejected < MaxRejected
    /\ audit' = [audit EXCEPT !.counts.rejected = @ + 1]
    /\ UNCHANGED <<emailAliases, nameToEmail, step, cursor>>

\* one pass of for (const email of emails)
ProcessEmail ==
    /\ step = "emails"
    /\ LET email == foundEmails[cursor]
           existing == Lookup(emailAliases, email, <<>>) # <<>>
           counts == audit.counts
       IN  \/ /\ existing
              /\ Advance(AtEmail(cursor + 1), counts)
              /\ UNCHANGED emailAliases
           \/ /\ ~existing
              /\ isValidEmail(email)
              /\ emailAliases' = Put(emailAliases, email, email)
              /\ Advance(AtEmail(cursor + 1),
                         [counts EXCEPT !.newEmailMappings = @ + 1])
           \/ /\ ~existing
              /\ ~isValidEmail(email)
              /\ \E answer \in PromptAnswers :
                    IF Accepted(answer)
                    THEN /\ emailAliases' =
                               Put(emailAliases, email, Trim(answer))
                         /\ Advance(AtEmail(cursor + 1),
                                    [counts EXCEPT !.newEmailMappings = @ + 1,
                                                   !.emailPrompts = @ + 1])
                    ELSE AskAgain
    /\ UNCHANGED <<nameToEmail, icsEvent, googleEvent, vevents, foundEmails,
                   foundNames, output, jsonl, loopVars, retryVars,
                   classifyVars, storeVars>>

\* one pass of for (const name of names)
ProcessName ==
    /\ step = "names"
    /\ LET name == foundNames[cursor]
           existing == Lookup(nameToEmail, name, <<>>) # <<>>
           counts == audit.counts
       IN  \/ /\ existing
              /\ Advance(AtName(cursor + 1), counts)
              /\ UNCHANGED nameToEmail
           \/ /\ ~existing
              /\ \E answer \in PromptAnswers :
                    IF Accepted(answer)
                    THEN /\ nameToEmail' = Put(nameToEmail, name, Trim(answer))
                         /\ Advance(AtName(cursor + 1),
                                    [counts EXCEPT !.newNameMappings = @ + 1,
                                                   !.namePrompts = @ + 1])
                    ELSE AskAgain
    /\ UNCHANGED <<emailAliases, icsEvent, googleEvent, vevents, foundEmails,
                   foundNames, output, jsonl, loopVars, retryVars,
                   classifyVars, storeVars>>

\* generateEventsJSON reads the file
GenerateStart ==
    /\ step = "generate"
    /\ step' = "convert"
    /\ cursor' = 1
    /\ output' = [events |-> <<>>, skippedCount |-> 0]
    /\ audit' = [audit EXCEPT !.atGenerate = Snapshot]
    /\ UNCHANGED <<vevents, foundEmails, foundNames, jsonl, loopVars,
                   convertVars, retryVars, classifyVars, storeVars>>

\* one pass of for (const vevent of vevents)
ConvertEvent ==
    /\ step = "convert"
    /\ cursor <= Len(vevents)
    /\ \E generated \in GeneratedIds :
          LET converted == convertICSToGoogleEvent(vevents[cursor],
                               emailAliases, nameToEmail, generated)
          IN  output' =
                 IF converted = Null
                 THEN [output EXCEPT !.skippedCount = @ + 1]
                 ELSE [output EXCEPT !.events =
                          Append(@, EventDataOf(vevents[cursor], converted))]
    /\ cursor' = cursor + 1
    /\ UNCHANGED <<vevents, step, foundEmails, foundNames, jsonl, audit,
                   loopVars, convertVars, retryVars, classifyVars, storeVars>>

\* fs.writeFileSync(jsonlPath, jsonlContent): one line for each element,
\* JSON.stringify leaves no line break inside a line
WriteJSONL ==
    /\ step = "convert"
    /\ cursor > Len(vevents)
    /\ jsonl' = output.events
    /\ step' = "done"
    /\ UNCHANGED <<vevents, foundEmails, foundNames, cursor, output, audit,
                   loopVars, convertVars, retryVars, classifyVars, storeVars>>

NextPipeline ==
    \/ Scan
    \/ ProcessEmail
    \/ ProcessName
    \/ GenerateStart
    \/ ConvertEvent
    \/ WriteJSONL

SpecPipeline == InitPipeline /\ [][NextPipeline]_vars

\* ------------------------------------------------- auxiliary operators
Last(s) == s[Len(s)]

Max(S) == CHOOSE x \in S : \A y \in S : y <= x

IsPrefix(s, t) == Len(s) <= Len(t) /\ \A p \in 1..Len(s) : s[p] = t[p]

Checkpoint == loadCheckpoint(fs, IcsFilePath)

Succeeded == {idx \in Indices : fate[idx] = "succeeded"}

Failed == {idx \in Indices : fate[idx] = "failed"}

CreatedFrom(idx) == {id \in 1..Len(remote) : remote[id].src = idx}

\* ---------------------------------------------------------------- C1
\* C1: the persisted checkpoint never exceeds an index whose delivery has
\* not been confirmed: every index at or below the checkpoint has had its
\* upload confirmed successful, in this run or an earlier one, whatever
\* skipErrors and checkDuplicates are.
C1_CheckpointOnlyPastConfirmed ==
    \A idx \in Indices : idx <= Checkpoint => idx \in confirmed

\* ---------------------------------------------------------------- C2
\* C2: with skipErrors, an index whose delivery failed in a run is retried
\* on the next resume: the checkpoint stays below it and the next run does
\* not skip it as already processed.
C2_FailedIndexRetriedOnResume ==
    (skipErrors /\ pc # "idle") =>
        \A idx \in prevFailed : ~(idx <= startPosition)

\* ---------------------------------------------------------------- C3
\* C3: duplicate checking disabled, no remote errors, runs terminated at
\* arbitrary points and re-invoked until one completes: at that completion
\* every record has been created on the remote calendar exactly once.
C3_ExactlyOnceAcrossRestarts ==
    (pc = "idle" /\ outcome = "completed" /\ completedRuns = 1
        /\ ~checkDuplicates /\ faults = 0) =>
        \A idx \in Indices : Cardinality(CreatedFrom(idx)) = 1

\* ---------------------------------------------------------------- C4
\* C4: in the default mode a failed delivery of index i stops the run at
\* once: the failed call is the last call of the run, no call was issued
\* for an index above i, the checkpoint file is not deleted, and the
\* checkpoint is the last index delivered in this run or, when there was
\* none, the sidecar is as it was when the run started.
C4_DefaultModeStopsAtFailure ==
    (~skipErrors /\ Failed # {}) =>
        /\ pc = "idle"
        /\ outcome = "exit1"
        /\ Failed = {i}
        /\ calls # <<>>
        /\ ~Last(calls).ok
        /\ Last(calls).idx = i
        /\ \A p \in 1..Len(calls) : calls[p].idx <= i
        /\ IF Succeeded # {}
           THEN /\ ExistsSync(fs, SidecarPath(IcsFilePath))
                /\ Checkpoint = Max(Succeeded)
           ELSE fs = fsAtStart

\* a run stopped by a failed update after an earlier success
C4_Witness ==
    /\ ~skipErrors
    /\ pc = "idle"
    /\ outcome = "exit1"
    /\ Succeeded # {}
    /\ Failed = {i}
    /\ Last(calls).op = "update"

\* ---------------------------------------------------------------- C5
\* C5: a run that read resume offset k from the checkpoint (-1 when there
\* is none) issues no remote call for an index <= k, counts every such
\* index as resumed, and its first remote call is for index k + 1.
C5_NoCallAtOrBelowResumeOffset ==
    (runs > 0) =>
        /\ startPosition = loadCheckpoint(fsAtStart, IcsFilePath)
        /\ \A p \in 1..Len(calls) : calls[p].idx > startPosition
        /\ \A idx \in Indices :
              (idx <= startPosition /\ idx < i) <=> fate[idx] = "resumed"
        /\ resumedCount =
              Cardinality({idx \in Indices : idx <= startPosition /\ idx < i})
        /\ pc \in {"import", "update", "save"} => i >= startPosition + 1
        /\ calls # <<>> => calls[1].idx = startPosition + 1

\* a resumed run past its skipped prefix, with its first call issued
C5_Witness ==
    /\ startPosition >= 0
    /\ resumedCount = startPosition + 1
    /\ calls # <<>>
    /\ calls[1].idx = startPosition + 1

\* ---------------------------------------------------------------- C6
\* the remote calls of an unbroken, error-free pass of the loop over the
\* records from..upTo-1 against calendar rem, and the calendar it leaves
RECURSIVE UnbrokenRun(_, _, _, _)
UnbrokenRun(from, upTo, rem, log) ==
    IF from >= upTo THEN [calls |-> log, remote |-> rem]
    ELSE
        LET ev == EventAt(from)
            exists == checkDuplicates /\ RemoteHas(rem, ev.iCalUID)
            listed == IF checkDuplicates
                      THEN Append(log, Call("list", from, TRUE,
                                            IF exists THEN 1 ELSE 0))
                      ELSE log
            id == Len(rem) + 1
            imported == Append(listed, Call("import", from, TRUE, id))
            stored == RemoteImport(rem, from, ev)
        IN  IF exists THEN UnbrokenRun(from + 1, upTo, rem, listed)
            ELSE IF ev.metadata.hasRecurrence
                    /\ ~ev.metadata.isRecurrenceException
                 THEN UnbrokenRun(from + 1, upTo, RemoteUpdate(stored, id),
                                  Append(imported,
                                         Call("update", from, TRUE, id)))
                 ELSE UnbrokenRun(from + 1, upTo, stored, imported)

CallsAbove(log, k) == SelectSeq(log, LAMBDA c : c.idx > k)

\* the checkpoint the current run found when it started
ResumeOffset == loadCheckpoint(fsAtStart, IcsFilePath)

\* the earlier runs stopped right after confirming index ResumeOffset: the
\* calendar holds what an unbroken run holds after that index
StoppedAfterConfirming ==
    remoteAtStart = UnbrokenRun(0, ResumeOffset + 1, <<>>, <<>>).remote

\* C6: a run re-invoked after delivery stopped on confirming index k
\* issues no remote call for an index <= k and, while no call fails,
\* issues for k+1..N-1 the calls of an unbroken run over the whole
\* sequence, in the same order; when it completes it has issued all of them.
C6_ResumeEqualsUnbrokenSuffix ==
    (runs > 0 /\ runFaults = 0 /\ StoppedAfterConfirming) =>
        LET expected ==
              CallsAbove(UnbrokenRun(0, NumEvents, <<>>, <<>>).calls,
                         ResumeOffset)
        IN  /\ IsPrefix(calls, expected)
            /\ (pc = "idle" /\ outcome = "completed") => calls = expected

\* a resumed run (offset >= 0) that completed after issuing calls
C6_Witness ==
    /\ runs = 2
    /\ runFaults = 0
    /\ StoppedAfterConfirming
    /\ ResumeOffset >= 0
    /\ pc = "idle"
    /\ outcome = "completed"
    /\ Len(calls) >= 2

\* ---------------------------------------------------------------- C7
\* the sidecar holds exactly the decimal text of index idx
CheckpointIs(files, idx) ==
    /\ ExistsSync(files, SidecarPath(IcsFilePath))
    /\ files[SidecarPath(IcsFilePath)] = toString(idx)
    /\ loadCheckpoint(files, IcsFilePath) = idx

\* C7: once index i is delivered and before any remote call for i+1 the
\* checkpoint holds exactly i; the checkpoint file is written only in the
\* step that follows the successful last call of the index written, never
\* for a failed or a resumed index.
C7_CheckpointWrittenAfterEachSuccess ==
    /\ [](\A idx \in Indices :
            (fate[idx] = "succeeded" /\ i = idx + 1
               /\ pc \in {"loop", "import", "update"})
            => CheckpointIs(fs, idx))
    /\ [][(fs' # fs /\ ExistsSync(fs', SidecarPath(IcsFilePath))) =>
            /\ CheckpointIs(fs', i)
            /\ calls # <<>>
            /\ Last(calls).idx = i
            /\ Last(calls).ok
            /\ Last(calls).op \in {"import", "update"}
            /\ fate[i] = "none"
            /\ fate'[i] = "succeeded"
            /\ i \in confirmed]_vars

\* index i-1 delivered and checkpointed, index i imported, its update pending
C7_Witness ==
    /\ pc = "update"
    /\ i >= 1
    /\ fate[i - 1] = "succeeded"
    /\ Checkpoint = i - 1

\* ---------------------------------------------------------------- C8
\* C8: when a run reaches the end of the sequence the checkpoint is
\* deleted: no sidecar exists afterwards, and the next run reads resume
\* offset -1, skips nothing and begins with index 0.
C8_CompletionDeletesCheckpoint ==
    /\ (pc = "idle" /\ outcome = "completed") =>
          /\ ~ExistsSync(fs, SidecarPath(IcsFilePath))
          /\ Checkpoint = -1
    /\ (pc # "idle" /\ outcome = "completed") =>
          /\ startPosition = -1
          /\ resumedCount = 0
          /\ calls # <<>> => calls[1].idx = 0

\* a run after a completed run that had delivered records, importing index 0
C8_Witness ==
    /\ outcome = "completed"
    /\ confirmed # {}
    /\ pc = "update"
    /\ i = 0

\* ---------------------------------------------------------------- C9
\* C9: records are delivered one at a time in source order: within a run
\* the indices of the remote calls never decrease, every index below the
\* index of a call has reached its terminal step (resumed, duplicate-skip,
\* success with checkpoint write, or failure), and the indices of the
\* imports are strictly increasing.
C9_OneAtATimeInSourceOrder ==
    /\ \A p, q \in 1..Len(calls) :
          p < q =>
             /\ calls[p].idx <= calls[q].idx
             /\ (calls[p].op = "import" /\ calls[q].op = "import")
                   => calls[p].idx < calls[q].idx
    /\ \A p \in 1..Len(calls) :
          \A idx \in Indices :
             idx < calls[p].idx => fate[idx] # "none"
    /\ \A idx \in Indices :
          (fate[idx] = "succeeded" /\ pc # "idle" /\ idx < i) =>
             Checkpoint >= idx

\* two records imported in one run, a duplicate lookup in between
C9_Witness ==
    \E p, q, r \in 1..Len(calls) :
        /\ p < q /\ q < r
        /\ calls[p].op = "import" /\ calls[p].ok
        /\ calls[q].op = "list"
        /\ calls[r].op = "import" /\ calls[r].ok
        /\ calls[p].idx < calls[r].idx

\* --------------------------------------------------------------- C10
UpdatesOf(idx) ==
    {p \in 1..Len(calls) : calls[p].op = "update" /\ calls[p].idx = idx}

Recurring(idx) ==
    /\ EventAt(idx).metadata.hasRecurrence
    /\ ~EventAt(idx).metadata.isRecurrenceException

\* C10: a follow-up update is issued for a delivered record exactly when
\* its metadata says it has a recurrence rule and is not a recurrence
\* exception; every update directly follows the successful import of the
\* same record and targets the id that import returned; the delivery is
\* counted as successful only after the update succeeded.
C10_UpdateIffRecurringSeries ==
    /\ \A p \in 1..Len(calls) :
          calls[p].op = "update" =>
             /\ p > 1
             /\ calls[p - 1].op = "import"
             /\ calls[p - 1].ok
             /\ calls[p - 1].idx = calls[p].idx
             /\ calls[p - 1].id = calls[p].id
             /\ remote[calls[p].id].src = calls[p].idx
             /\ Recurring(calls[p].idx)
    /\ \A p \in 1..Len(calls) :
          (calls[p].op = "import" /\ calls[p].ok
              /\ Recurring(calls[p].idx)) =>
             IF p = Len(calls)
             THEN pc \in {"update", "idle"}
             ELSE calls[p + 1].op = "update"
    /\ \A idx \in Indices :
          (fate[idx] = "succeeded" \/ (pc = "save" /\ i = idx)) =>
             /\ \E p \in 1..Len(calls) :
                   calls[p].op = "import" /\ calls[p].idx = idx
                      /\ calls[p].ok
             /\ Recurring(idx) <=> UpdatesOf(idx) # {}
             /\ \A p \in UpdatesOf(idx) : calls[p].ok

\* a recurring series and a recurrence exception both delivered in a run
C10_Witness ==
    \E a, b \in Indices :
        /\ fate[a] = "succeeded"
        /\ fate[b] = "succeeded"
        /\ Recurring(a)
        /\ UpdatesOf(a) # {}
        /\ EventAt(b).metadata.hasRecurrence
        /\ EventAt(b).metadata.isRecurrenceException
        /\ UpdatesOf(b) = {}

\* --------------------------------------------------------------- C11
CallsOf(op, idx) ==
    {p \in 1..Len(calls) : calls[p].op = op /\ calls[p].idx = idx}

\* the lookup at position p of the log answered that the event exists
Found(p) == calls[p].op = "list" /\ calls[p].ok /\ calls[p].id = 1

\* C11: the duplicate check is opt-in: with checkDuplicates false no
\* lookup is ever issued; with checkDuplicates true every record entered
\* is looked up first, and when the lookup finds an event with the same
\* iCalUID the index is counted as duplicate-skip and neither import nor
\* update is issued for it.
C11_DuplicateCheckIsOptIn ==
    /\ ~checkDuplicates =>
          /\ \A p \in 1..Len(calls) : calls[p].op # "list"
          /\ skippedCount = 0
          /\ \A idx \in Indices : fate[idx] # "skipped"
    /\ checkDuplicates =>
          \A p \in 1..Len(calls) :
             calls[p].op = "import" =>
                /\ p > 1
                /\ calls[p - 1].op = "list"
                /\ calls[p - 1].idx = calls[p].idx
                /\ ~Found(p - 1)
    /\ \A p \in 1..Len(calls) :
          Found(p) =>
             /\ checkDuplicates
             /\ RemoteHas(remote, EventAt(calls[p].idx).iCalUID)
             /\ fate[calls[p].idx] = "skipped"
             /\ CallsOf("import", calls[p].idx) = {}
             /\ CallsOf("update", calls[p].idx) = {}
    /\ skippedCount =
          Cardinality({p \in 1..Len(calls) : Found(p)})

\* a run with the check enabled that skipped a record found on the
\* calendar and imported another one
C11_Witness ==
    /\ checkDuplicates
    /\ \E p, q \in 1..Len(calls) :
          /\ Found(p)
          /\ calls[q].op = "import"
          /\ calls[q].ok
    /\ skippedCount = 1

\* ------------------------------------------------------- C12 .. C15
\* the message of e holds the words that report an invalid sequence
MentionsSequenceInvalidity(e) ==
    /\ e.type = "object"
    /\ e.message.type = "string"
    /\ \E a \in 1..Len(e.message.text) :
          /\ a + 2 <= Len(e.message.text)
          /\ SubSeq(e.message.text, a, a + 2) = <<"Invalid", "sequence", "value">>

\* e carries 409 as response.status or as code
Carries409(e) ==
    /\ e.type = "object"
    /\ \/ /\ e.response.type = "object"
          /\ e.response.status.type = "number"
          /\ e.response.status.num = 409
       \/ /\ e.code.type = "number"
          /\ e.code.num = 409

\* a sequence conflict, as the tests hand them to the protocol
Conflict(e) == MentionsSequenceInvalidity(e) \/ Carries409(e)

Rejected == {k \in 1..Len(updates) : ~updates[k].ok}

\* the counter an answer of events.get stands for, absent read as 0
Fetched(k) == IF DOMAIN gets[k] = {} THEN 0 ELSE gets[k].sequence

\* C12: when events.update fails with a conflict r times and then
\* succeeds, and the ceiling is above r, updateEventWithRetry returns the
\* answer after exactly r + 1 updates and r + 1 fetches; every update
\* submits the sequence fetched immediately before it plus 1, an absent
\* sequence being read as 0; below the ceiling conflicts never end the call.
C12_RetryUntilSuccess ==
    /\ \A k \in 1..Len(updates) :
          /\ k <= Len(gets)
          /\ updates[k].sequence = Fetched(k) + 1
    /\ Len(gets) = Len(updates) + (IF rpc = "update" THEN 1 ELSE 0)
    /\ (/\ \A k \in Rejected : Conflict(updates[k].error)
        /\ Len(updates) < maxRetries) => rpc # "thrown"
    /\ (Len(updates) > 0 /\ updates[Len(updates)].ok) =>
          /\ rpc = "returned"
          /\ result = "response"
          /\ Rejected = 1..(Len(updates) - 1)
          /\ \A k \in Rejected : Conflict(updates[k].error)
          /\ Len(updates) - 1 < maxRetries
    /\ rpc = "returned" =>
          /\ Len(updates) > 0
          /\ updates[Len(updates)].ok

\* two conflicts, then success on the third attempt; one of the fetches
\* found no sequence
C12_Witness ==
    /\ rpc = "returned"
    /\ result = "response"
    /\ Len(updates) = 3
    /\ Len(gets) = 3
    /\ gets[2] = NoSequence
    /\ updates[2].sequence = 1
    /\ gets[3] = [sequence |-> 5]
    /\ updates[3].sequence = 6

\* C13: when every update fails with a conflict, updateEventWithRetry
\* with ceiling m stops after exactly m updates and m fetches and raises
\* the error of the last update; it returns neither an answer nor
\* undefined, and the process is not terminated.
C13_ExhaustionRaisesLastConflict ==
    /\ (/\ rpc \in {"returned", "thrown"}
        /\ Rejected = 1..Len(updates)
        /\ \A k \in Rejected : Conflict(updates[k].error)) =>
          /\ rpc = "thrown"
          /\ Len(updates) = maxRetries
          /\ Len(gets) = maxRetries
          /\ thrown = updates[Len(updates)].error
          /\ thrown = lastError
          /\ result = "none"
    /\ Len(updates) <= maxRetries
    /\ result # "undefined"
    /\ outcome = "none"
    /\ pc = "idle"

\* ceiling 2, two conflicts of different shape, the second one raised
C13_Witness ==
    /\ rpc = "thrown"
    /\ maxRetries = 2
    /\ Len(updates) = 2
    /\ updates[1].error = NewError(InvalidSequenceValue)
    /\ thrown = ErrorObject(Str(<<"error">>), Undefined, Num(409))

\* C14: an update failure that is not a sequence conflict ends the call
\* at once: no fetch and no update follows it, and the error raised is
\* the very error the update was rejected with; when the first update
\* fails this way exactly one update has been made.
C14_OtherFailureRaisedAtOnce ==
    \A k \in Rejected :
       ~Conflict(updates[k].error) =>
          /\ k = Len(updates)
          /\ Len(gets) = k
          /\ rpc = "thrown"
          /\ thrown = updates[k].error
          /\ result = "none"

\* ceiling 3, the first update rejected with a plain error
C14_Witness ==
    /\ maxRetries = 3
    /\ rpc = "thrown"
    /\ Len(updates) = 1
    /\ Len(gets) = 1
    /\ thrown = NewError(<<"some", "other", "error">>)

\* C15: isSequenceError answers true exactly when the message of the
\* error mentions sequence invalidity or the error carries 409 as
\* response.status or as code; null, undefined and objects whose message
\* is missing or null are answered false, and no input makes it raise.
C15_ConflictClassification ==
    classified # "none" =>
       /\ classified \in {"true", "false"}
       /\ classified = "true" <=>
             (MentionsSequenceInvalidity(error) \/ Carries409(error))
       /\ error \in {Null, Undefined} => classified = "false"
       /\ (/\ error.type = "object"
           /\ error.message.type # "string"
           /\ ~Carries409(error)) => classified = "false"

\* an object without message, with a null response and code 409, has been
\* classified as a conflict
C15_Witness ==
    /\ error = ErrorObject(Undefined, Null, Num(409))
    /\ classified = "true"

\* ------------------------------------------------------- C16 .. C20
Converted == googleEvent # NotConverted

IsRecord == Converted /\ "iCalUID" \in DOMAIN googleEvent

\* series-id, "_R", an eight-digit date, an optional time (an optional
\* "T" and digits) and an optional suffix that starts with "@"
SeriesInstanceUid(uid) ==
    \E sid \in 1..Len(uid), time \in 0..Len(uid), suffix \in 0..Len(uid) :
       /\ sid + 2 + 8 + time + suffix = Len(uid)
       /\ SubSeq(uid, sid + 1, sid + 2) = <<"_", "R">>
       /\ \A k \in (sid + 3)..(sid + 10) : IsDigit(uid[k])
       /\ \A k \in 1..time :
             \/ IsDigit(uid[sid + 10 + k])
             \/ k = 1 /\ uid[sid + 10 + k] = "T"
       /\ suffix # 0 => suffix >= 2 /\ uid[sid + 10 + time + 1] = "@"

\* C16: convertICSToGoogleEvent returns null exactly when the event has no
\* recurrence-exception marker and its uid has the form of a series
\* instance; an event with the marker always yields a record, with the
\* exception flag set, also when its uid has that form.
C16_NullIffSeriesInstance ==
    Converted =>
       /\ googleEvent = Null <=>
             (icsEvent.recurrenceId = <<>> /\ SeriesInstanceUid(icsEvent.uid))
       /\ googleEvent # Null => IsRecord
       /\ icsEvent.recurrenceId # <<>> =>
             /\ IsRecord
             /\ "_isRecurrenceException" \in DOMAIN googleEvent
             /\ googleEvent._isRecurrenceException = TRUE
       /\ (IsRecord /\ icsEvent.recurrenceId = <<>>) =>
             "_isRecurrenceException" \notin DOMAIN googleEvent

\* an exception whose uid has the form of an instance became a record
C16_Witness ==
    /\ IsRecord
    /\ icsEvent.recurrenceId # <<>>
    /\ SeriesInstanceUid(icsEvent.uid)
    /\ googleEvent._isRecurrenceException
    /\ googleEvent.iCalUID = icsEvent.uid

\* the raw address of an ORGANIZER or ATTENDEE property
RawEmail(prop) == extractEmail(prop.value)

\* C17: an organizer with a name and no resolvable email costs the record
\* its organizer field and nothing else: the record is the one the same
\* event without ORGANIZER converts to, recurrence, start, end and every
\* resolving attendee included.
C17_OnlyOrganizerOmitted ==
    (/\ Converted
     /\ icsEvent.organizer # <<>>
     /\ RawEmail(icsEvent.organizer[1]) = <<>>
     /\ icsEvent.organizer[1].cn # <<>>
     /\ icsEvent.organizer[1].cn \notin DOMAIN nameToEmail) =>
       \E generated \in GeneratedIds :
          googleEvent =
             convertICSToGoogleEvent([icsEvent EXCEPT !.organizer = <<>>],
                                     emailAliases, nameToEmail, generated)

\* the address is given, fails the syntax test and is not in the alias table
InvalidWithoutAlias(prop) ==
    /\ RawEmail(prop) # <<>>
    /\ ~isValidEmail(RawEmail(prop))
    /\ RawEmail(prop) \notin DOMAIN emailAliases

AttendeeEmails ==
    IF IsRecord /\ "attendees" \in DOMAIN googleEvent
    THEN {googleEvent.attendees[k].email :
             k \in 1..Len(googleEvent.attendees)}
    ELSE {}

\* C19: an organizer or attendee whose raw email is invalid and has no
\* alias entry is unresolved: the organizer field is omitted, the attendee
\* is dropped, and the invalid address is nowhere in the record.
C19_InvalidEmailUnresolved ==
    IsRecord =>
       /\ (/\ icsEvent.organizer # <<>>
           /\ InvalidWithoutAlias(icsEvent.organizer[1])) =>
             "organizer" \notin DOMAIN googleEvent
       /\ \A k \in 1..Len(icsEvent.attendees) :
             InvalidWithoutAlias(icsEvent.attendees[k]) =>
                RawEmail(icsEvent.attendees[k]) \notin AttendeeEmails

\* the converter finds an address for the property: the property gives
\* one, or it gives a name the name table knows
Resolves(prop) ==
    \/ RawEmail(prop) # <<>>
    \/ prop.cn \in DOMAIN nameToEmail

Expected(e) == IF e \in DOMAIN emailAliases THEN emailAliases[e] ELSE e

\* the raw address is valid or the alias table has it
Addressed(prop) ==
    /\ RawEmail(prop) # <<>>
    /\ isValidEmail(RawEmail(prop)) \/ RawEmail(prop) \in DOMAIN emailAliases

\* the attendees the converter finds an address for, in source order
Surviving == SelectSeq(icsEvent.attendees, Resolves)

\* C20: a valid raw email without alias entry stands for itself, and a
\* raw email with an alias entry stands for the alias value: the email
\* of the organizer, and of each attendee of the attendees field, is that
\* address.
C20_ValidEmailResolvesToItselfOrAlias ==
    IsRecord =>
       /\ (/\ icsEvent.organizer # <<>>
           /\ Addressed(icsEvent.organizer[1])) =>
             /\ "organizer" \in DOMAIN googleEvent
             /\ googleEvent.organizer.email =
                   Expected(RawEmail(icsEvent.organizer[1]))
       /\ "attendees" \in DOMAIN googleEvent =>
             /\ Len(googleEvent.attendees) = Len(Surviving)
             /\ \A k \in 1..Len(Surviving) :
                   Addressed(Surviving[k]) =>
                      googleEvent.attendees[k].email =
                         Expected(RawEmail(Surviving[k]))

\* john@example.com stands for its alias as organizer and as attendee,
\* jane@example.com, which has no alias, for itself
C20_Witness ==
    /\ IsRecord
    /\ John \in DOMAIN emailAliases
    /\ icsEvent.organizer # <<>>
    /\ RawEmail(icsEvent.organizer[1]) = John
    /\ googleEvent.organizer.email = emailAliases[John]
    /\ "attendees" \in DOMAIN googleEvent
    /\ Len(googleEvent.attendees) = 2
    /\ RawEmail(icsEvent.attendees[1]) = Jane
    /\ googleEvent.attendees[1].email = Jane
    /\ RawEmail(icsEvent.attendees[2]) = John
    /\ googleEvent.attendees[2].email = emailAliases[John]

\* ------------------------------------------------------- C21 .. C27
Base36 ==
    {"0", "1", "2", "3", "4", "5", "6", "7", "8", "9", "a", "b", "c", "d",
     "e", "f", "g", "h", "i", "j", "k", "l", "m", "n", "o", "p", "q", "r",
     "s", "t", "u", "v", "w", "x", "y", "z"}

\* imported-<time>-<random suffix>: the time in decimal digits, the suffix
\* at most nine base-36 digits
GeneratedForm(id) ==
    \E t \in 2..Len(id) - 1 :
       /\ id[1] = "imported-"
       /\ AllDigits(SubSeq(id, 2, t))
       /\ id[t + 1] = "-"
       /\ Len(id) - (t + 1) <= 9
       /\ \A k \in (t + 2)..Len(id) : id[k] \in Base36

\* C21: every event convertICSToGoogleEvent produces carries an iCalUID
\* that is not empty: the uid of the source when it has one, and otherwise
\* an identifier of the form imported-<time>-<random suffix>.
C21_ICalUIDAlwaysPresent ==
    (Converted /\ googleEvent # Null) =>
       /\ "iCalUID" \in DOMAIN googleEvent
       /\ googleEvent.iCalUID # <<>>
       /\ icsEvent.uid # <<>> => googleEvent.iCalUID = icsEvent.uid
       /\ icsEvent.uid = <<>> => GeneratedForm(googleEvent.iCalUID)

\* an event without uid got a generated identifier with a full suffix
C21_Witness ==
    /\ IsRecord
    /\ icsEvent.uid = <<>>
    /\ GeneratedForm(googleEvent.iCalUID)
    /\ Len(googleEvent.iCalUID) = 1 + 10 + 1 + 9

\* the lookup table of legacy zone names
LegacyZoneNames ==
    {"Central Standard Time", "Central Daylight Time",
     "Eastern Standard Time", "Eastern Daylight Time",
     "Pacific Standard Time", "Pacific Daylight Time",
     "Mountain Standard Time", "Mountain Daylight Time",
     "GMT Standard Time", "W. Europe Standard Time",
     "Central Europe Standard Time", "Romance Standard Time",
     "China Standard Time", "Tokyo Standard Time", "India Standard Time"}

IanaOf(name) ==
    CASE name \in {"Central Standard Time", "Central Daylight Time"} ->
            "America/Chicago"
      [] name \in {"Eastern Standard Time", "Eastern Daylight Time"} ->
            "America/New_York"
      [] name \in {"Pacific Standard Time", "Pacific Daylight Time"} ->
            "America/Los_Angeles"
      [] name \in {"Mountain Standard Time", "Mountain Daylight Time"} ->
            "America/Denver"
      [] name = "GMT Standard Time" -> "Europe/London"
      [] name = "W. Europe Standard Time" -> "Europe/Berlin"
      [] name = "Central Europe Standard Time" -> "Europe/Prague"
      [] name = "Romance Standard Time" -> "Europe/Paris"
      [] name = "China Standard Time" -> "Asia/Shanghai"
      [] name = "Tokyo Standard Time" -> "Asia/Tokyo"
      [] name = "India Standard Time" -> "Asia/Kolkata"

\* the label a normalized zone name has
NormalizedZone(label) ==
    IF label = "" THEN "UTC"
    ELSE IF label \in LegacyZoneNames THEN IanaOf(label)
    ELSE label

\* C22: in every converted event the time-zone label of start and of end
\* is the IANA identifier of the table for a legacy zone name, the label
\* of the source when the table does not have it, and UTC when the source
\* has no label.
C22_ZoneNamesNormalized ==
    IsRecord =>
       /\ icsEvent.startDate # <<>> =>
             googleEvent.start.timeZone =
                NormalizedZone(icsEvent.startDate[1].timezone)
       /\ icsEvent.endDate # <<>> =>
             googleEvent.end.timeZone =
                NormalizedZone(icsEvent.endDate[1].timezone)

\* an entry of byday that names a day
NamesDay(d) ==
    \/ "str" \in DOMAIN d /\ d.str # ""
    \/ "day" \in DOMAIN d /\ d.day # ""

\* the rule has nothing the translation carries over: no frequency, no
\* interval above 1, no end, no count, no day, no day of the month, no month
NoTranslatableComponent(rule) ==
    /\ rule.freq = ""
    /\ rule.interval <= 1
    /\ rule.until = <<>>
    /\ rule.count = 0
    /\ \A k \in 1..Len(rule.byday) : ~NamesDay(rule.byday[k])
    /\ rule.bymonthday = <<>>
    /\ rule.bymonth = <<>>

ComponentTokens ==
    {"FREQ=", "INTERVAL=", "UNTIL=", "COUNT=", "BYDAY=", "BYMONTHDAY=",
     "BYMONTH="}

\* C23: for a recurrence rule without translatable component the
\* translation yields null and the converted event has no recurrence
\* field; a recurrence field that is present is a list of exactly one
\* rule text, which is not empty and has a component after "RRULE:".
C23_RecurrenceAbsentOrOneRule ==
    IsRecord =>
       /\ (icsEvent.rrule # <<>> /\ NoTranslatableComponent(icsEvent.rrule[1]))
             => /\ convertICalRRuleToGoogle(icsEvent.rrule[1]) = Null
                /\ "recurrence" \notin DOMAIN googleEvent
       /\ icsEvent.rrule = <<>> => "recurrence" \notin DOMAIN googleEvent
       /\ "recurrence" \in DOMAIN googleEvent =>
             /\ Len(googleEvent.recurrence) = 1
             /\ Len(googleEvent.recurrence[1]) >= 2
             /\ googleEvent.recurrence[1][1] = "RRULE:"
             /\ googleEvent.recurrence[1][2] \in ComponentTokens

\* a rule that has an interval of 1, entries of byday without a day and a
\* bysetpos was converted: the event has no recurrence field
C23_Witness ==
    /\ IsRecord
    /\ icsEvent.rrule # <<>>
    /\ icsEvent.rrule[1].interval = 1
    /\ Len(icsEvent.rrule[1].byday) = 2
    /\ icsEvent.rrule[1].bysetpos # <<>>
    /\ NoTranslatableComponent(icsEvent.rrule[1])
    /\ "recurrence" \notin DOMAIN googleEvent

\* the last save or remove on the path before call k of the store, 0
\* when there is none
LastChange(k) ==
    Max({0} \cup {j \in 1..(k - 1) : /\ ops[j].path = ops[k].path
                                     /\ ops[j].op \in {"save", "remove"}})

\* C24: loadCheckpoint returns the position of the last saveCheckpoint on
\* the same path when no removeCheckpoint came after it, -1 after a
\* removeCheckpoint, and -1 when the path has no checkpoint file.
C24_CheckpointRoundTrip ==
    \A k \in 1..Len(ops) :
       ops[k].op = "load" =>
          /\ LastChange(k) # 0 =>
                ops[k].value = IF ops[LastChange(k)].op = "save"
                               THEN ops[LastChange(k)].value
                               ELSE -1
          /\ ~ops[k].existed => ops[k].value = -1

\* a position of two digits is saved over a sidecar left behind, the
\* other path is saved too, and the first path is loaded
C24_Witness ==
    /\ Len(ops) = 3
    /\ ops[1] = StoreCall("save", IcsFilePath, 10, TRUE)
    /\ ops[2].op = "save" /\ ops[2].path # IcsFilePath /\ ops[2].value # 10
    /\ ops[3] = StoreCall("load", IcsFilePath, 10, TRUE)

\* the attendees of the converted event, none when the field is absent
AttendeesList ==
    IF "attendees" \in DOMAIN googleEvent THEN googleEvent.attendees
    ELSE <<>>

\* the address the tables give an attendee that resolves
ResolvedEmail(prop) ==
    IF RawEmail(prop) # <<>> THEN Expected(RawEmail(prop))
    ELSE nameToEmail[prop.cn]

\* C26: an attendee with a name and no name-table entry is dropped on its
\* own: the event is still produced, and its attendees are exactly the
\* attendees of the source that resolve, in source order.
C26_UnresolvedAttendeeDroppedAlone ==
    /\ (/\ Converted
        /\ ~(icsEvent.recurrenceId = <<>> /\ SeriesInstanceUid(icsEvent.uid)))
          => googleEvent # Null
    /\ IsRecord =>
          /\ Len(AttendeesList) = Len(Surviving)
          /\ \A k \in 1..Len(Surviving) :
                k <= Len(AttendeesList) =>
                   AttendeesList[k].email = ResolvedEmail(Surviving[k])

\* the event is an occurrence the conversion leaves to its series
Suppressed(ev) == ev.recurrenceId = <<>> /\ SeriesInstanceUid(ev.uid)

\* the events among the first upTo of the file that are not suppressed
Emitting(upTo) ==
    SelectSeq(SubSeq(vevents, 1, upTo), LAMBDA ev : ~Suppressed(ev))

Generating == step \in {"convert", "done"}

\* C25: generateEventsJSON emits one record for each source event that is
\* not a suppressed occurrence, in source order, and none for a suppressed
\* one; in the metadata of a record hasRecurrence is true exactly when the
\* record has a recurrence field, and isRecurrenceException exactly when
\* the source event has a recurrence-id.
C25_OneRecordPerConvertedEvent ==
    Generating =>
       LET source == Emitting(cursor - 1) IN
       /\ Len(output.events) = Len(source)
       /\ output.skippedCount = (cursor - 1) - Len(source)
       /\ \A k \in 1..Len(source) :
             LET record == output.events[k] IN
             /\ record.summary = source[k].summary
             /\ record._metadata.originalSummary = source[k].summary
             /\ record._metadata.originalICalUID = source[k].uid
             /\ source[k].uid # <<>> => record.iCalUID = source[k].uid
             /\ record._metadata.hasRecurrence <=>
                   "recurrence" \in DOMAIN record
             /\ record._metadata.isRecurrenceException <=>
                   source[k].recurrenceId # <<>>
       /\ step = "done" =>
             /\ cursor - 1 = Len(vevents)
             /\ jsonl = output.events

\* a file with the event without uid, whose rule translates to nothing,
\* and an occurrence listed on its own: one record, without recurrence
C25_Witness ==
    /\ step = "done"
    /\ Len(vevents) = 2
    /\ vevents[1].summary = <<"No UID Event">>
    /\ vevents[1].rrule # <<>>
    /\ Suppressed(vevents[2])
    /\ Len(jsonl) = 1
    /\ jsonl[1]._metadata.originalSummary = <<"No UID Event">>
    /\ ~jsonl[1]._metadata.hasRecurrence
    /\ ~jsonl[1]._metadata.isRecurrenceException

\* the ORGANIZER and ATTENDEE properties of the file
PropsOfFile == UNION {{PropsOf(vevents[k])[j] :
                          j \in 1..Len(PropsOf(vevents[k]))} :
                      k \in 1..Len(vevents)}

ScannedEmails == {RawEmail(prop) : prop \in {q \in PropsOfFile :
                                                RawEmail(q) # <<>>}}

ScannedNames == {prop.cn : prop \in {q \in PropsOfFile :
                                        RawEmail(q) = <<>> /\ q.cn # <<>>}}

HasEmailOrName(prop) == RawEmail(prop) # <<>> \/ prop.cn # <<>>

\* generateEventsJSON is about to start or has started, called by
\* prepareEmails
Prepared ==
    audit.command = "prepare" /\ step \in {"generate", "convert", "done"}

\* C27: prepareEmails fills the tables before the conversion begins.  Once
\* generateEventsJSON has started there is no prompt and no table write;
\* from its start every email of the file has an alias-table entry and
\* every name without email a name-table entry; and every record keeps
\* the organizer and all attendees that have an email or a name.
C27_TablesFilledBeforeConversion ==
    Prepared =>
       /\ Generating => audit.atGenerate = Snapshot
       /\ \A e \in ScannedEmails :
             e \in DOMAIN emailAliases /\ emailAliases[e] # <<>>
       /\ \A name \in ScannedNames :
             name \in DOMAIN nameToEmail /\ nameToEmail[name] # <<>>
       /\ Generating =>
             \A k \in 1..Len(output.events) :
                LET source == Emitting(cursor - 1)[k]
                    record == output.events[k]
                IN  /\ (/\ source.organizer # <<>>
                        /\ HasEmailOrName(source.organizer[1])) =>
                          "organizer" \in DOMAIN record
                    /\ Len(SelectSeq(source.attendees, HasEmailOrName)) =
                          IF "attendees" \in DOMAIN record
                          THEN Len(record.attendees) ELSE 0

\* the meeting with the invalid address and the unknown name went through
\* prepare: both prompts were answered, one line was turned down, and the
\* record has the organizer and the attendee under the addresses typed
C27_Witness ==
    /\ step = "done"
    /\ audit.command = "prepare"
    /\ audit.counts.emailPrompts = 1
    /\ audit.counts.namePrompts = 1
    /\ audit.counts.rejected = 1
    /\ audit.saved = {"email-aliases.json", "name-to-email.json"}
    /\ Len(jsonl) = 1
    /\ jsonl[1].summary = <<"Invalid Email Meeting">>
    /\ jsonl[1].organizer.email = <<"fixed", "@", "example", ".", "com">>
    /\ Len(jsonl[1].attendees) = 1
    /\ jsonl[1].attendees[1].email = <<"fixed", "@", "example", ".", "com">>

\* ------------------------------------------------------- C28 .. C30
\* index k was skipped as a duplicate and no later index of the run
\* succeeded
SkippedLast(k) ==
    /\ fate[k] = "skipped"
    /\ \A later \in Indices : later > k => fate[later] # "succeeded"

\* the file system after the last success of the run before index k
FsBefore(k) ==
    LET earlier == {j \in Indices : j < k /\ fate[j] = "succeeded"} IN
    IF earlier = {} THEN fsAtStart
    ELSE saveCheckpoint(fsAtStart, IcsFilePath, Max(earlier))

RunCompleted == pc = "idle" /\ outcome = "completed"

\* C28: a duplicate-skip writes no checkpoint.  After index k is skipped
\* and until a later index succeeds or the run completes, the files are
\* those the last success before k left and the checkpoint is below k;
\* a run starts from the checkpoint it finds, and with the duplicate
\* check it issues the lookup for every index above that checkpoint it
\* handles: so a run that follows looks index k up again.
C28_DuplicateSkipWritesNoCheckpoint ==
    /\ \A k \in Indices :
          SkippedLast(k) =>
             /\ loadCheckpoint(fs, IcsFilePath) < k
             /\ ~IsResumed(k, loadCheckpoint(fs, IcsFilePath))
             /\ ~RunCompleted => fs = FsBefore(k)
    /\ runs > 0 => startPosition = loadCheckpoint(fsAtStart, IcsFilePath)
    /\ checkDuplicates =>
          \A k \in Indices :
             (fate[k] \in {"skipped", "succeeded", "failed"}) =>
                /\ k > startPosition
                /\ \E c \in 1..Len(calls) :
                      calls[c].op = "list" /\ calls[c].idx = k

\* the second run resumed index 0, looked index 1 up again and skipped it,
\* was stopped, and has left the checkpoint at 0
C28_Witness ==
    /\ runs = 2
    /\ pc = "idle"
    /\ outcome = "killed"
    /\ NumEvents = 2
    /\ fate[0] = "resumed"
    /\ fate[1] = "skipped"
    /\ loadCheckpoint(fs, IcsFilePath) = 0
    /\ remote = remoteAtStart
    /\ \E c \in 1..Len(calls) : calls[c] = Call("list", 1, TRUE, 1)

Min(a, b) == IF a < b THEN a ELSE b

Count(kind) == Cardinality({idx \in Indices : fate[idx] = kind})

\* C29: when a run has reached the end of the N events, every index has
\* been counted exactly once, as imported, skipped as duplicate, resumed
\* or failed: the three counters and the number of failed indices add up
\* to N, each counter is the number of indices that ended that way, and
\* the resumed ones are the first min(N, resume offset + 1) indices.
C29_StatisticsConserved ==
    RunCompleted =>
       /\ i = NumEvents
       /\ \A idx \in Indices :
             fate[idx] \in {"succeeded", "skipped", "resumed", "failed"}
       /\ successCount = Count("succeeded")
       /\ skippedCount = Count("skipped")
       /\ resumedCount = Count("resumed")
       /\ successCount + skippedCount + resumedCount + Count("failed")
             = NumEvents
       /\ resumedCount = Min(NumEvents, startPosition + 1)
       /\ \A idx \in Indices : fate[idx] = "resumed" <=> idx < resumedCount

\* a run over two events ends with one resumed and one failed index
C29_Witness ==
    /\ RunCompleted
    /\ NumEvents = 2
    /\ startPosition = 0
    /\ resumedCount = 1
    /\ fate[1] = "failed"
    /\ successCount = 0
    /\ skippedCount = 0

LookupFailed(c) == calls[c].op = "list" /\ ~calls[c].ok

\* C30: with the duplicate check on, a lookup that fails counts as "does
\* not exist": the next call of the run is the import of the same event,
\* an index is reported as failed only when its import or its update
\* failed, and a run that stops with exit code 1 stopped on a failed
\* import or update, never on the lookup.
C30_LookupFailureMeansAbsent ==
    /\ \A c \in 1..Len(calls) :
          LookupFailed(c) =>
             /\ checkDuplicates
             /\ fate[calls[c].idx] \notin {"skipped", "resumed"}
             /\ IF c < Len(calls)
                THEN /\ calls[c + 1].op = "import"
                     /\ calls[c + 1].idx = calls[c].idx
                ELSE /\ i = calls[c].idx
                     /\ fate[i] = "none"
                     /\ pc = "import" \/ (pc = "idle" /\ outcome = "killed")
    /\ \A k \in Indices :
          fate[k] = "failed" =>
             \E c \in 1..Len(calls) :
                /\ calls[c].idx = k
                /\ calls[c].op \in {"import", "update"}
                /\ ~calls[c].ok
    /\ (pc = "idle" /\ outcome = "exit1") =>
          /\ calls # <<>>
          /\ Last(calls).op \in {"import", "update"}
          /\ ~Last(calls).ok

\* the lookup of index 0 failed, the event was created all the same and
\* the run went on to the end
C30_Witness ==
    /\ RunCompleted
    /\ Len(calls) >= 2
    /\ LookupFailed(1)
    /\ calls[1].idx = 0
    /\ calls[2] = Call("import", 0, TRUE, calls[2].id)
    /\ fate[0] = "succeeded"
    /\ successCount = NumEvents

====
